---- MODULE Spec2Model ----
(***************************************************************************)
(* Lowering for the LLVM backend (src/src/coreclr/jit/llvmlower.cpp).      *)
(*                                                                         *)
(* State machines over one set of variables:                               *)
(*   SpecSpill  - Llvm::lowerSpillTempsLiveAcrossSafePoints, run on a      *)
(*                function's blocks and then run again on its own output   *)
(*   SpecLocals - Llvm::lowerLocalsBeforeNodes                             *)
(*   SpecEH     - Llvm::AddUnhandledExceptionHandler                       *)
(*   SpecLower  - Llvm::Lower and Llvm::lowerBlocks                        *)
(*   SpecRange  - Llvm::lowerRange over one block: lowerNode, lowerCall    *)
(*                and what lowerCall calls                                 *)
(*   SpecStruct - Llvm::normalizeStructUse on one use, applied twice       *)
(***************************************************************************)
EXTENDS Integers, Sequences, FiniteSets, TLC

VARIABLES
    \* ---- lowerSpillTempsLiveAcrossSafePoints
    blocks,          \* the function's blocks, each an LIR range (sequence of nodes)
    bb,              \* index of the block the outer loop is in
    liveGcDefs,      \* SDSUs live after the current node: sequence of [key, value]
    spillLclsRef,    \* free spill locals of type TYP_REF (stack)
    spillLclsByref,  \* free spill locals of type TYP_BYREF (stack)
    lvaTypes,        \* lvType of every local, local number n at index n + 1
    nextNodeId,      \* identity given to the next node created
    m_lclHeapUsed,   \* Llvm::m_lclHeapUsed
    pcSpill,         \* "run1" | "ran" | "ranAgain" | "off"
    \* ---- AddUnhandledExceptionHandler
    fgBlocks,          \* the function's basic blocks, fgFirstBB to fgLastBB
    fgFirstBBScratch,  \* bbNum of the scratch first block, or NoBlock
    compHndBBtab,      \* the EH table, region number n at index n + 1
    IsReversePInvoke,  \* opts.IsReversePInvoke()
    nextBBNum,         \* bbNum given to the next block created
    pcEH,              \* "start" | "done" | "off"
    \* ---- lowerLocalsBeforeNodes
    lvaCount,          \* Compiler::lvaCount
    curLclNum,         \* lclNum of the loop over the locals
    varDsc,            \* lvaGetDesc(lclNum) of the iteration under way, or NoDsc
    fieldDscs,         \* what is known of the locals after lclNum: the field
                       \* locals of the promoted structs met so far
    shadowStackLocals, \* the std::vector of the same name
    prologInits,       \* the stores initializeLocalInProlog has added
    paddingLclNum,     \* the padding local, or BAD_VAR_NUM
    useDynamicStack,   \* doUseDynamicStackForLclHeap()
    pcLocals,          \* "loop" | "body" | "done" | "off"
    \* ---- Lower, initializeLlvmArgInfo, lowerBlocks
    passesRun,         \* the passes Lower has called, in order
    lowerLva,          \* the locals initializeLlvmArgInfo works on
    llvmArgInfo,       \* _shadowStackLclNum, _originalShadowStackLclNum, _llvmArgCount
    compArgInfo,       \* m_info: compArgsCount, compThisArg, compRetBuffArg, ...
    lowerBBs,          \* the blocks lowerBlocks walks, in bbNext order
    curBB,             \* position of the block the walk is at
    pcLower,           \* "Lower" | "lowerBlocks1" | "lowerBlocks2" |
                       \* "lowerLocalsAfterNodes" | "done" | "off"
    \* ---- lowerRange, lowerNode, lowerCall
    m_currentRange,    \* Llvm::m_currentRange: the LIR range of the block
    m_currentBlock,    \* Llvm::m_currentBlock: bbJumpKind, bbHndIndex
    rangeNode,         \* id of the node the loop of lowerRange is at, 0 past the end
    rangeState,        \* lvaCount, the next node identity, the throw helper
                       \* blocks asked for
    pcRange,           \* "lowerRange" | "done" | "fatal" | "off"
    \* ---- normalizeStructUse
    structRange,       \* the range holding the use
    structUse,         \* the use: user, def and the layout asked for
    structResult,      \* ids of the nodes the applications returned
    structLva,         \* the layouts of the locals
    pcStruct,          \* "start" | "once" | "twice" | "off"
    \* ---- shared
    ehAnyFunclets      \* Compiler::ehAnyFunclets()

spillVars == <<blocks, bb, liveGcDefs, spillLclsRef, spillLclsByref,
               lvaTypes, nextNodeId, pcSpill>>

ehVars == <<fgBlocks, fgFirstBBScratch, compHndBBtab, nextBBNum, pcEH>>

localsVars == <<lvaCount, curLclNum, varDsc, fieldDscs, shadowStackLocals, prologInits,
                paddingLclNum, useDynamicStack, pcLocals>>

lowerVars == <<passesRun, lowerLva, llvmArgInfo, compArgInfo, lowerBBs, curBB, pcLower>>

rangeVars == <<m_currentRange, m_currentBlock, rangeNode, rangeState, pcRange>>

structVars == <<structRange, structUse, structResult, structLva, pcStruct>>

vars == <<spillVars, ehVars, localsVars, lowerVars, rangeVars, structVars,
          m_lclHeapUsed, IsReversePInvoke, ehAnyFunclets>>

\* ------------------------------------------------------------------------
\* Bounds
\* ------------------------------------------------------------------------
\* Nodes of the function the spiller is given.
MaxNodes == 4
\* Nodes of the functions of references and calls the spiller is given.
MaxReuseNodes == 6
\* Blocks and EH regions of the function AddUnhandledExceptionHandler is given.
MaxBBs == 4
MaxRegions == 2
\* Locals of the function lowerLocalsBeforeNodes is given.
MaxLocals == 3
\* Arguments and blocks of the function Lower is given.
MaxArgs == 2
MaxLowerBBs == 2

\* ------------------------------------------------------------------------
\* Sequences and LIR ranges
\* ------------------------------------------------------------------------
\* The "no local" number: larger than every local number (UINT_MAX in the JIT,
\* which needs more than the 32 signed bits of the integers used here).
BAD_VAR_NUM == 2147483647

NoAddr == 0

PosOf(range, id) == CHOOSE i \in 1..Len(range) : range[i].id = id

InRange(range, id) == \E i \in 1..Len(range) : range[i].id = id

NodeOf(range, id) == range[PosOf(range, id)]

InsertAt(range, i, node) ==
    SubSeq(range, 1, i - 1) \o <<node>> \o SubSeq(range, i, Len(range))

InsertAfter(range, id, node) == InsertAt(range, PosOf(range, id) + 1, node)

InsertBefore(range, id, node) == InsertAt(range, PosOf(range, id), node)

SetMark(range, id, m) ==
    [i \in 1..Len(range) |-> IF range[i].id = id THEN [range[i] EXCEPT !.mark = m]
                                                 ELSE range[i]]

SetUse(range, userId, k, newId) ==
    [i \in 1..Len(range) |-> IF range[i].id = userId
                             THEN [range[i] EXCEPT !.ops = [@ EXCEPT ![k] = newId]]
                             ELSE range[i]]

\* ------------------------------------------------------------------------
\* Nodes
\* ------------------------------------------------------------------------
Shape(oper, type, gc, contained, unused, safePoint, iconHandle, retBuf, arities) ==
    [oper |-> oper, type |-> type, gc |-> gc, contained |-> contained,
     unused |-> unused, safePoint |-> safePoint, iconHandle |-> iconHandle,
     retBuf |-> retBuf, arities |-> arities]

\* The instructions a block is made of: leaves that define a value, a contained
\* field list, calls (safe points or not, with a return buffer or not, with a used
\* or an unused result) and a dynamic stack allocation.
NodeShapes ==
    { Shape("GT_IND", "TYP_REF", FALSE, FALSE, FALSE, FALSE, FALSE, FALSE, {0}),
      Shape("GT_ADD", "TYP_BYREF", FALSE, FALSE, FALSE, FALSE, FALSE, FALSE, {0}),
      Shape("GT_IND", "TYP_STRUCT", TRUE, FALSE, FALSE, FALSE, FALSE, FALSE, {0}),
      Shape("GT_LCL_VAR", "TYP_REF", FALSE, FALSE, FALSE, FALSE, FALSE, FALSE, {0}),
      Shape("GT_LCL_ADDR", "TYP_BYREF", FALSE, FALSE, FALSE, FALSE, FALSE, FALSE, {0}),
      Shape("GT_CNS_INT", "TYP_REF", FALSE, FALSE, FALSE, FALSE, TRUE, FALSE, {0}),
      Shape("GT_LCLHEAP", "TYP_I_IMPL", FALSE, FALSE, TRUE, FALSE, FALSE, FALSE, {0}),
      Shape("GT_FIELD_LIST", "TYP_STRUCT", TRUE, TRUE, FALSE, FALSE, FALSE, FALSE, {1, 2}),
      Shape("GT_CALL", "TYP_VOID", FALSE, FALSE, FALSE, TRUE, FALSE, FALSE, {0, 1, 2}),
      Shape("GT_CALL", "TYP_VOID", FALSE, FALSE, FALSE, TRUE, FALSE, TRUE, {1}),
      Shape("GT_CALL", "TYP_VOID", FALSE, FALSE, FALSE, FALSE, FALSE, FALSE, {1}),
      Shape("GT_CALL", "TYP_REF", FALSE, FALSE, FALSE, TRUE, FALSE, FALSE, {0, 1}),
      Shape("GT_CALL", "TYP_REF", FALSE, FALSE, TRUE, TRUE, FALSE, FALSE, {0}),
      Shape("GT_CALL", "TYP_STRUCT", TRUE, FALSE, FALSE, TRUE, FALSE, FALSE, {0}),
      Shape("GT_CALL", "TYP_STRUCT", FALSE, FALSE, FALSE, TRUE, FALSE, FALSE, {0}) }

\* "id" is the place of a node in the order of creation, "addr" the address it
\* was allocated at. Only the nodes that become keys of liveGcDefs have their
\* address looked at; the others, the stores and loads the spiller creates
\* among them, are given NoAddr.
MkNode(id, addr, sh, ops) ==
    [id |-> id, addr |-> addr, oper |-> sh.oper, type |-> sh.type, gc |-> sh.gc,
     contained |-> sh.contained, unused |-> sh.unused, safePoint |-> sh.safePoint,
     iconHandle |-> sh.iconHandle, retBuf |-> sh.retBuf, lcl |-> BAD_VAR_NUM,
     ops |-> ops, ops0 |-> ops, mark |-> FALSE, spill |-> FALSE, def |-> 0]

gtNewTempStore(id, lclNum, defId) ==
    [id |-> id, addr |-> NoAddr, oper |-> "GT_STORE_LCL_VAR", type |-> "TYP_VOID", gc |-> FALSE,
     contained |-> FALSE, unused |-> FALSE, safePoint |-> FALSE,
     iconHandle |-> FALSE, retBuf |-> FALSE, lcl |-> lclNum,
     ops |-> <<defId>>, ops0 |-> <<>>, mark |-> FALSE, spill |-> TRUE, def |-> defId]

gtNewLclVarNode(id, lclNum, type, defId) ==
    [id |-> id, addr |-> NoAddr, oper |-> "GT_LCL_VAR", type |-> type, gc |-> FALSE,
     contained |-> FALSE, unused |-> FALSE, safePoint |-> FALSE,
     iconHandle |-> FALSE, retBuf |-> FALSE, lcl |-> lclNum,
     ops |-> <<>>, ops0 |-> <<>>, mark |-> FALSE, spill |-> TRUE, def |-> defId]

IsValue(node) ==
    /\ node.type # "TYP_VOID"
    /\ node.oper \notin {"GT_STORE_LCL_VAR", "GT_STOREIND"}

IsUnusedValue(node) == node.unused

isContained(node) == node.contained

IsCall(node) == node.oper = "GT_CALL"

HasRetBuffer(node) == node.retBuf

GetRetBufferArg(node) == node.ops[1]

OperIsLocal(node) == node.oper \in {"GT_LCL_VAR", "GT_LCL_FLD", "GT_STORE_LCL_VAR", "GT_STORE_LCL_FLD"}

varTypeIsGC(node) == node.type \in {"TYP_REF", "TYP_BYREF"}

isPotentialGcSafePoint(node) == node.safePoint

\* isGcTemp without the exclusion of the locals.
isGcTemp_LocalsToo(node) ==
    IF varTypeIsGC(node) \/ node.type = "TYP_STRUCT"
    THEN IF node.type = "TYP_STRUCT" /\ node.oper = "GT_IND" THEN FALSE
         ELSE IF node.type = "TYP_STRUCT" /\ ~node.gc THEN FALSE
         ELSE node.oper # "GT_LCL_ADDR" /\ ~node.iconHandle
    ELSE FALSE

isGcTemp(node) ==
    IF varTypeIsGC(node) \/ node.type = "TYP_STRUCT"
    THEN IF node.type = "TYP_STRUCT" /\ node.oper = "GT_IND" THEN FALSE
         ELSE IF node.type = "TYP_STRUCT" /\ ~node.gc THEN FALSE
         ELSE ~OperIsLocal(node) /\ node.oper # "GT_LCL_ADDR" /\ ~node.iconHandle
    ELSE FALSE

\* ------------------------------------------------------------------------
\* liveGcDefs: SmallHashTable<GenTree*, unsigned, 8, DeterministicNodeHashInfo>
\*
\* The table is an array of NumInlineBuckets buckets. A key goes to its home
\* bucket, hash & (NumInlineBuckets - 1), or, when that one is full, to the
\* first empty bucket after it; the table is iterated in bucket order. It is
\* kept here as the sequence of its full buckets, [key, value, bucket], in
\* bucket order. The functions with live values stay below the load at which
\* the table would grow.
\* ------------------------------------------------------------------------
NumInlineBuckets == 8

\* The enumerators' values (var_types, genTreeOps).
varTypeNum(type) ==
    CASE type = "TYP_VOID" -> 1
      [] type = "TYP_I_IMPL" -> 9
      [] type = "TYP_REF" -> 13
      [] type = "TYP_BYREF" -> 14
      [] type = "TYP_STRUCT" -> 15

genTreeOpsNum(oper) ==
    CASE oper = "GT_LCL_VAR" -> 3
      [] oper = "GT_STORE_LCL_VAR" -> 5
      [] oper = "GT_LCL_ADDR" -> 7
      [] oper = "GT_CNS_INT" -> 13
      [] oper = "GT_LCLHEAP" -> 27
      [] oper = "GT_IND" -> 36
      [] oper = "GT_ADD" -> 48
      [] oper = "GT_CALL" -> 102
      [] oper = "GT_FIELD_LIST" -> 110

RECURSIVE Xor(_, _)
Xor(a, b) ==
    IF a = 0 THEN b
    ELSE IF b = 0 THEN a
    ELSE (((a % 2) + (b % 2)) % 2) + (2 * Xor(a \div 2, b \div 2))

\* A hash that is the node's address.
GetHashCode_Address(node) == node.addr

\* Lines 150-153.
GetHashCode(node) == Xor(varTypeNum(node.type), genTreeOpsNum(node.oper))

FullBuckets(table) == { table[i].bucket : i \in 1..Len(table) }

\* The bucket a new key with this hash is put in.
BucketFor(table, hash) ==
    LET home == hash % NumInlineBuckets
        j == CHOOSE k \in 0..(NumInlineBuckets - 1) :
                /\ (home + k) % NumInlineBuckets \notin FullBuckets(table)
                /\ \A m \in 0..(k - 1) : (home + m) % NumInlineBuckets \in FullBuckets(table)
    IN (home + j) % NumInlineBuckets

HasKey(table, key) == \E i \in 1..Len(table) : table[i].key = key

TryGetValue(table, key) ==
    IF HasKey(table, key)
    THEN table[CHOOSE i \in 1..Len(table) : table[i].key = key].value
    ELSE BAD_VAR_NUM

TryRemove(table, key) == SelectSeq(table, LAMBDA e : e.key # key)

AddOrUpdate(table, node, value) ==
    IF HasKey(table, node.id)
    THEN [i \in 1..Len(table) |-> IF table[i].key = node.id
                                  THEN [table[i] EXCEPT !.value = value] ELSE table[i]]
    ELSE LET b == BucketFor(table, GetHashCode(node))
         IN SelectSeq(table, LAMBDA e : e.bucket < b)
               \o <<[key |-> node.id, value |-> value, bucket |-> b]>>
               \o SelectSeq(table, LAMBDA e : e.bucket > b)

\* ------------------------------------------------------------------------
\* The spiller's lambdas. "s" is the state they capture:
\*   range, live, ref, byref, lva, stack (containedOperands), nid, ret
\* ------------------------------------------------------------------------
lvaGrabTemp(s, type) ==
    [s EXCEPT !.lva = Append(@, type), !.ret = Len(s.lva)]

\* A new local for every spill.
getSpillLcl_NewLocal(s, node) == lvaGrabTemp(s, node.type)

getSpillLcl(s, node) ==
    IF node.type = "TYP_REF" /\ s.ref # <<>>
    THEN [s EXCEPT !.ref = SubSeq(@, 1, Len(@) - 1), !.ret = s.ref[Len(s.ref)]]
    ELSE IF node.type = "TYP_BYREF" /\ s.byref # <<>>
    THEN [s EXCEPT !.byref = SubSeq(@, 1, Len(@) - 1), !.ret = s.byref[Len(s.byref)]]
    ELSE lvaGrabTemp(s, node.type)

\* releaseSpillLcl with one list for the two kinds.
releaseSpillLcl_OneList(s, lclNum) ==
    IF s.lva[lclNum + 1] = "TYP_REF" \/ s.lva[lclNum + 1] = "TYP_BYREF"
    THEN [s EXCEPT !.ref = Append(@, lclNum)]
    ELSE s

releaseSpillLcl(s, lclNum) ==
    IF s.lva[lclNum + 1] = "TYP_REF" THEN [s EXCEPT !.ref = Append(@, lclNum)]
    ELSE IF s.lva[lclNum + 1] = "TYP_BYREF" THEN [s EXCEPT !.byref = Append(@, lclNum)]
    ELSE s

\* A slot is taken and a store inserted whether the def has a slot or not.
spillValue_Again(s, defId, spillLclNum) ==
    LET g == getSpillLcl(s, NodeOf(s.range, defId))
        store == gtNewTempStore(g.nid, g.ret, defId)
    IN [g EXCEPT !.range = InsertAfter(g.range, defId, store), !.nid = g.nid + 1]

\* Lines 237-252.
spillValue(s, defId, spillLclNum) ==
    IF spillLclNum # BAD_VAR_NUM
    THEN [s EXCEPT !.ret = spillLclNum]
    ELSE LET g == getSpillLcl(s, NodeOf(s.range, defId))
             store == gtNewTempStore(g.nid, g.ret, defId)
         IN [g EXCEPT !.range = InsertAfter(g.range, defId, store), !.nid = g.nid + 1]

\* The return buffer argument gets no treatment of its own.
SpillRetBuf_Never(s, node) == s

\* Lines 273-284: a call's return buffer argument that is marked live is spilled.
SpillRetBuf(s, node) ==
    IF IsCall(node) /\ HasRetBuffer(node)
    THEN LET retBufNode == NodeOf(s.range, GetRetBufferArg(node))
         IN IF retBufNode.mark
            THEN LET t == spillValue(s, retBufNode.id, TryGetValue(s.live, retBufNode.id))
                 IN [t EXCEPT !.live = AddOrUpdate(t.live, retBufNode, t.ret)]
            ELSE s
    ELSE s

\* Lines 291-321: one use edge of "user".
ProcessUse(s, userId, k) ==
    LET operand == NodeOf(s.range, NodeOf(s.range, userId).ops[k])
    IN IF isContained(operand)
       THEN [s EXCEPT !.stack = Append(@, operand.id)]
       ELSE IF operand.mark
       THEN LET spillLclNum == TryGetValue(s.live, operand.id)
                s1 == [s EXCEPT !.live = TryRemove(@, operand.id)]
                lclVarNode == gtNewLclVarNode(s1.nid, spillLclNum, operand.type, operand.id)
                s2 == IF spillLclNum # BAD_VAR_NUM
                      THEN releaseSpillLcl(
                               [s1 EXCEPT !.range = InsertBefore(
                                              SetUse(s1.range, userId, k, lclVarNode.id),
                                              userId, lclVarNode),
                                          !.nid = s1.nid + 1],
                               spillLclNum)
                      ELSE s1
            IN [s2 EXCEPT !.range = SetMark(@, operand.id, FALSE)]
       ELSE s

RECURSIVE ProcessUseEdges(_, _, _)
ProcessUseEdges(s, userId, k) ==
    IF k > Len(NodeOf(s.range, userId).ops) THEN s
    ELSE ProcessUseEdges(ProcessUse(s, userId, k), userId, k + 1)

\* Lines 286-330: the users reached from "node" through contained operands.
RECURSIVE ProcessUsers(_, _)
ProcessUsers(s, userId) ==
    LET s1 == ProcessUseEdges(s, userId, 1)
    IN IF s1.stack = <<>> THEN s1
       ELSE ProcessUsers([s1 EXCEPT !.stack = SubSeq(@, 1, Len(@) - 1)],
                         s1.stack[Len(s1.stack)])

\* Lines 338-341: every live def is spilled, in the table's iteration order.
RECURSIVE SpillLiveDefs(_, _)
SpillLiveDefs(s, i) ==
    IF i > Len(s.live) THEN s
    ELSE LET t == spillValue(s, s.live[i].key, s.live[i].value)
         IN SpillLiveDefs([t EXCEPT !.live = [@ EXCEPT ![i].value = t.ret]], i + 1)

\* The safe point's spilling, not done for a single live def.
SpillAtSafePoint_NotForOne(s, node) ==
    IF isPotentialGcSafePoint(node) /\ Len(s.live) > 1 THEN SpillLiveDefs(s, 1) ELSE s

SpillAtSafePoint(s, node) ==
    IF isPotentialGcSafePoint(node) /\ Len(s.live) # 0 THEN SpillLiveDefs(s, 1) ELSE s

\* The value becomes live and its node is not marked.
AddDef_Unmarked(s, node) ==
    IF IsValue(node) /\ ~IsUnusedValue(node) /\ isGcTemp(node)
    THEN [s EXCEPT !.live = AddOrUpdate(@, node, BAD_VAR_NUM)]
    ELSE s

\* Lines 344-349: the value this node defines becomes live.
AddDef(s, node) ==
    IF IsValue(node) /\ ~IsUnusedValue(node) /\ isGcTemp(node)
    THEN [s EXCEPT !.range = SetMark(@, node.id, TRUE),
                   !.live = AddOrUpdate(@, node, BAD_VAR_NUM)]
    ELSE s

\* Lines 259-350: the body of the loop over a block's nodes, for one node.
SpillVisit(s, nodeId) ==
    LET node == NodeOf(s.range, nodeId)
    IN IF isContained(node) THEN s
       ELSE AddDef(SpillAtSafePoint(ProcessUsers(SpillRetBuf(s, node), nodeId), node), node)

Captured(range) ==
    [range |-> range, live |-> liveGcDefs, ref |-> spillLclsRef, byref |-> spillLclsByref,
     lva |-> lvaTypes, stack |-> <<>>, nid |-> nextNodeId, ret |-> BAD_VAR_NUM]

\* ------------------------------------------------------------------------
\* The blocks the spiller is given: valid LIR
\* ------------------------------------------------------------------------
RangeSet(f) == {f[i] : i \in DOMAIN f}

\* Values of the block that no node uses yet.
Unconsumed(range) ==
    { n.id : n \in { m \in RangeSet(range) :
                       /\ ~m.spill
                       /\ IsValue(m)
                       /\ ~IsUnusedValue(m)
                       /\ \A u \in RangeSet(range) : \A k \in DOMAIN u.ops0 : u.ops0[k] # m.id } }

\* The operand lists a new node can have: distinct unconsumed values, in the
\* order of their definition.
OperandLists(avail, arities) ==
    (IF 0 \in arities THEN {<<>>} ELSE {})
    \cup (IF 1 \in arities THEN { <<x>> : x \in avail } ELSE {})
    \cup (IF 2 \in arities
          THEN { p \in { <<x, y>> : x \in avail, y \in avail } : p[1] < p[2] }
          ELSE {})

AllNodes == UNION { RangeSet(blocks[b]) : b \in 1..Len(blocks) }

UsedAddrs == { n.addr : n \in { m \in AllNodes : m.addr # NoAddr } }

\* A node of this shape defines a value that is put in liveGcDefs.
DefinesGcTemp(sh) ==
    IsValue(sh) /\ ~isContained(sh) /\ ~IsUnusedValue(sh) /\ isGcTemp(sh)

\* Where the allocator may have put a new node: below or above the nodes there
\* are ("anywhere"), or above them only.
NodeAddresses(sh, first, anywhere) ==
    IF ~DefinesGcTemp(sh) THEN {NoAddr}
    ELSE IF UsedAddrs = {} THEN {first}
    ELSE (IF anywhere
          THEN {(CHOOSE a \in UsedAddrs : \A o \in UsedAddrs : a <= o) - 1}
          ELSE {})
         \cup {(CHOOSE a \in UsedAddrs : \A o \in UsedAddrs : a >= o) + 1}

RECURSIVE InputCountFrom(_)
InputCountFrom(b) ==
    IF b > Len(blocks) THEN 0
    ELSE Len(SelectSeq(blocks[b], LAMBDA n : ~n.spill)) + InputCountFrom(b + 1)

InputCount == InputCountFrom(1)

BlockComplete(range) == Unconsumed(range) = {}

\* ------------------------------------------------------------------------
\* lowerSpillTempsLiveAcrossSafePoints, first run: the loop reads the next node
\* of the current block and visits it.
\* ------------------------------------------------------------------------
\* The functions are built of the nodes of "shapes", "maxNodes" of them.
SpillNodeOf(shapes, maxNodes, anywhere) ==
    /\ pcSpill = "run1"
    /\ InputCount < maxNodes
    /\ \E sh \in shapes :
         \E ops \in OperandLists(Unconsumed(blocks[bb]), sh.arities) :
            /\ sh.retBuf => NodeOf(blocks[bb], ops[1]).type = "TYP_BYREF"
            /\ \A k \in DOMAIN ops :
                  isContained(NodeOf(blocks[bb], ops[k])) => sh.oper = "GT_CALL"
            /\ \E addr \in NodeAddresses(sh, maxNodes, anywhere) :
               LET node == MkNode(nextNodeId, addr, sh, ops)
                   s0 == [Captured(Append(blocks[bb], node)) EXCEPT !.nid = nextNodeId + 1]
                   s1 == SpillVisit(s0, node.id)
               IN /\ blocks' = [blocks EXCEPT ![bb] = s1.range]
                  /\ liveGcDefs' = s1.live
                  /\ spillLclsRef' = s1.ref
                  /\ spillLclsByref' = s1.byref
                  /\ lvaTypes' = s1.lva
                  /\ nextNodeId' = s1.nid
                  /\ m_lclHeapUsed' = (m_lclHeapUsed \/ node.oper = "GT_LCLHEAP")
    /\ UNCHANGED <<bb, pcSpill>>

SpillNode == SpillNodeOf(NodeShapes, MaxNodes, TRUE)

\* Line 254-257: the outer loop moves to the next block.
SpillNextBlockOf(maxNodes) ==
    /\ pcSpill = "run1"
    /\ InputCount < maxNodes
    /\ Len(blocks[bb]) > 0
    /\ BlockComplete(blocks[bb])
    /\ blocks' = Append(blocks, <<>>)
    /\ bb' = bb + 1
    /\ UNCHANGED <<liveGcDefs, spillLclsRef, spillLclsByref, lvaTypes,
                   nextNodeId, m_lclHeapUsed, pcSpill>>

SpillNextBlock == SpillNextBlockOf(MaxNodes)

\* Lines 259-350: the loop over the nodes of one block, from position "pos" on.
RECURSIVE SpillRange(_, _)
SpillRange(s, pos) ==
    IF pos > Len(s.range) THEN s
    ELSE LET id == s.range[pos].id
             s1 == SpillVisit(s, id)
         IN SpillRange(s1, PosOf(s1.range, id) + 1)

\* Lines 254-351: the loop over the blocks, from block "b" on. "f" carries the
\* blocks and the state the lambdas capture.
RECURSIVE SpillBlocks(_, _)
SpillBlocks(f, b) ==
    IF b > Len(f.blocks) THEN f
    ELSE LET s1 == SpillRange([f.s EXCEPT !.range = f.blocks[b]], 1)
         IN SpillBlocks([blocks |-> [f.blocks EXCEPT ![b] = s1.range], s |-> s1,
                         heap |-> f.heap \/ \E i \in 1..Len(f.blocks[b]) :
                                                f.blocks[b][i].oper = "GT_LCLHEAP"],
                        b + 1)

\* The first run returns.
SpillReturnOf(maxNodes) ==
    /\ pcSpill = "run1"
    /\ InputCount = maxNodes
    /\ BlockComplete(blocks[bb])
    /\ pcSpill' = "ran"
    /\ UNCHANGED <<blocks, bb, liveGcDefs, spillLclsRef, spillLclsByref,
                   lvaTypes, nextNodeId, m_lclHeapUsed>>

SpillReturn == SpillReturnOf(MaxNodes)

\* lowerSpillTempsLiveAcrossSafePoints is run again, on its own output.
SpillAgain ==
    /\ pcSpill = "ran"
    /\ LET f == SpillBlocks([blocks |-> blocks,
                             s |-> [range |-> <<>>, live |-> <<>>, ref |-> <<>>,
                                    byref |-> <<>>, lva |-> lvaTypes, stack |-> <<>>,
                                    nid |-> nextNodeId, ret |-> BAD_VAR_NUM],
                             heap |-> m_lclHeapUsed], 1)
       IN /\ blocks' = f.blocks
          /\ liveGcDefs' = f.s.live
          /\ spillLclsRef' = f.s.ref
          /\ spillLclsByref' = f.s.byref
          /\ lvaTypes' = f.s.lva
          /\ nextNodeId' = f.s.nid
          /\ m_lclHeapUsed' = f.heap
    /\ pcSpill' = "ranAgain"
    /\ UNCHANGED bb

InitSpill ==
    /\ blocks = << <<>> >>
    /\ bb = 1
    /\ liveGcDefs = <<>>
    /\ spillLclsRef = <<>>
    /\ spillLclsByref = <<>>
    /\ lvaTypes = <<"TYP_REF">>
    /\ nextNodeId = 1
    /\ m_lclHeapUsed = FALSE
    /\ pcSpill = "run1"

\* The spiller touches only its own state and m_lclHeapUsed.
SpillFrame ==
    UNCHANGED <<ehVars, localsVars, lowerVars, rangeVars, structVars,
                IsReversePInvoke, ehAnyFunclets>>

NextSpill ==
    \/ SpillNode /\ SpillFrame
    \/ SpillNextBlock /\ SpillFrame
    \/ SpillReturn /\ SpillFrame
    \/ SpillAgain /\ SpillFrame

SpillOff ==
    /\ blocks = << <<>> >>
    /\ bb = 1
    /\ liveGcDefs = <<>>
    /\ spillLclsRef = <<>>
    /\ spillLclsByref = <<>>
    /\ lvaTypes = <<>>
    /\ nextNodeId = 1
    /\ pcSpill = "off"

EHOff ==
    /\ fgBlocks = <<>>
    /\ fgFirstBBScratch = 0
    /\ compHndBBtab = <<>>
    /\ nextBBNum = 1
    /\ pcEH = "off"

LocalsOff ==
    /\ lvaCount = 0
    /\ curLclNum = 0
    /\ varDsc = [lvType |-> "TYP_UNDEF"]
    /\ fieldDscs = <<>>
    /\ shadowStackLocals = <<>>
    /\ prologInits = <<>>
    /\ paddingLclNum = BAD_VAR_NUM
    /\ useDynamicStack = FALSE
    /\ pcLocals = "off"

LowerOff ==
    /\ passesRun = <<>>
    /\ lowerLva = <<>>
    /\ llvmArgInfo = [_llvmArgCount |-> 0]
    /\ compArgInfo = [compArgsCount |-> 0]
    /\ lowerBBs = <<>>
    /\ curBB = 0
    /\ pcLower = "off"

RangeOff ==
    /\ m_currentRange = <<>>
    /\ m_currentBlock = [bbJumpKind |-> "BBJ_NONE", bbHndIndex |-> 0]
    /\ rangeNode = 0
    /\ rangeState = [lvaCount |-> 0]
    /\ pcRange = "off"

StructOff ==
    /\ structRange = <<>>
    /\ structUse = [user |-> 0]
    /\ structResult = <<>>
    /\ structLva = <<>>
    /\ pcStruct = "off"

StartSpill ==
    /\ InitSpill /\ EHOff /\ LocalsOff /\ LowerOff /\ RangeOff /\ StructOff
    /\ IsReversePInvoke = FALSE /\ ehAnyFunclets = FALSE

SpecSpill == StartSpill /\ [][NextSpill]_vars

\* The spiller on longer functions: one block of reference values and calls.
ReuseShapes ==
    { sh \in NodeShapes :
        /\ sh.oper \in {"GT_IND", "GT_CALL"}
        /\ sh.type \in {"TYP_REF", "TYP_VOID"}
        /\ ~sh.unused /\ ~sh.retBuf }

NextSpillReuse ==
    \/ SpillNodeOf(ReuseShapes, MaxReuseNodes, FALSE) /\ SpillFrame
    \/ SpillReturnOf(MaxReuseNodes) /\ SpillFrame

SpecSpillReuse == StartSpill /\ [][NextSpillReuse]_vars

\* ------------------------------------------------------------------------
\* Properties of the spiller
\* ------------------------------------------------------------------------
BlockIds == 1..Len(blocks)

IsSpillStore(n) == n.spill /\ n.oper = "GT_STORE_LCL_VAR"

IsSpillLoad(n) == n.spill /\ n.oper = "GT_LCL_VAR"

\* A definition the collector has to be able to find.
GcRelevantDef(d) ==
    /\ ~d.contained
    /\ d.type \in {"TYP_REF", "TYP_BYREF"} \/ (d.type = "TYP_STRUCT" /\ d.gc)
    /\ d.oper \notin {"GT_LCL_VAR", "GT_LCL_ADDR"}
    /\ ~d.iconHandle
    /\ ~(d.type = "TYP_STRUCT" /\ d.oper = "GT_IND")

\* The uses of "u" have been visited: u itself was, or the node containing it.
UsesVisited(range, u) ==
    /\ ~u.spill
    /\ u.contained => \E v \in RangeSet(range) : \E k \in DOMAIN v.ops0 : v.ops0[k] = u.id

SafePointBetween(range, i, j) ==
    \E p \in (i + 1)..(j - 1) : ~range[p].contained /\ range[p].safePoint

\* "d", defined at position pd, was spilled and the k-th operand of "u" (at
\* position pu) reloads it; Close(range, pl, pu) says how near the load is.
SpilledAndReloaded(range, pd, pu, k, Close(_, _, _)) ==
    /\ pd < Len(range)
    /\ IsSpillStore(range[pd + 1])
    /\ range[pd + 1].ops = <<range[pd].id>>
    /\ InRange(range, range[pu].ops[k])
    /\ LET pl == PosOf(range, range[pu].ops[k])
       IN /\ IsSpillLoad(range[pl])
          /\ range[pl].lcl = range[pd + 1].lcl
          /\ pl < pu
          /\ Close(range, pl, pu)

SpilledAcrossSafePoints(Close(_, _, _)) ==
    (pcSpill \in {"run1", "ran"}) =>
        \A b \in BlockIds : \A pu \in 1..Len(blocks[b]) :
            LET range == blocks[b]
                u == range[pu]
            IN UsesVisited(range, u) =>
                 \A k \in DOMAIN u.ops0 :
                    LET pd == PosOf(range, u.ops0[k])
                    IN (GcRelevantDef(range[pd]) /\ SafePointBetween(range, pd, pu))
                          => SpilledAndReloaded(range, pd, pu, k, Close)

Adjacent(range, pl, pu) == pl = pu - 1

OnlyLoadsOfSameUser(range, pl, pu) ==
    \A p \in (pl + 1)..(pu - 1) :
        IsSpillLoad(range[p]) /\ \E k \in DOMAIN range[pu].ops : range[pu].ops[k] = range[p].id

\* C1 (as stated): every GC-relevant definition with a safe point strictly
\* between it and its consumer has a spill store immediately after it, and the
\* consumer's operand is a load of the same local placed immediately before the
\* consumer.
C1_SpillStoreAndAdjacentLoad == SpilledAcrossSafePoints(Adjacent)

\* C1 (amended): as above, but the load is placed before the consumer with
\* nothing between the two except the loads inserted for the other spilled
\* operands of the same consumer.
C1_SpillStoreAndLoadBeforeUser == SpilledAcrossSafePoints(OnlyLoadsOfSameUser)

\* A consumer with a safe point between a GC definition and itself has been
\* visited and reads a reloaded operand.
C1_Witness ==
    /\ pcSpill = "run1"
    /\ \E b \in BlockIds : \E pu \in 1..Len(blocks[b]) :
          /\ UsesVisited(blocks[b], blocks[b][pu])
          /\ \E k \in DOMAIN blocks[b][pu].ops0 :
                LET pd == PosOf(blocks[b], blocks[b][pu].ops0[k])
                IN /\ GcRelevantDef(blocks[b][pd])
                   /\ SafePointBetween(blocks[b], pd, pu)
                   /\ blocks[b][pu].ops[k] # blocks[b][pu].ops0[k]

\* Position of the spill store made for definition "defId".
StorePos(range, defId) ==
    CHOOSE p \in 1..Len(range) : IsSpillStore(range[p]) /\ range[p].def = defId

\* C2: between the spill store of a definition D into slot V and a load the
\* spiller inserted for D from V, no store into V for another definition
\* lies in block order: the load reads the value of D.
C2_LoadReadsItsDefinition ==
    \A b \in BlockIds : \A pl \in 1..Len(blocks[b]) :
        LET range == blocks[b]
            ld == range[pl]
        IN IsSpillLoad(ld) =>
             \A p \in (StorePos(range, ld.def) + 1)..(pl - 1) :
                ~(IsSpillStore(range[p]) /\ range[p].lcl = ld.lcl /\ range[p].def # ld.def)

\* C3: the second run of the spiller inserts no node, replaces no operand and
\* grabs no local.
C3_SecondRunChangesNothing ==
    [][pcSpill = "ran" => (blocks' = blocks /\ lvaTypes' = lvaTypes /\ nextNodeId' = nextNodeId)]_vars

\* The second run has gone over a spilled definition, its reload, and a
\* return-buffer call or a contained node.
C3_Witness ==
    /\ pcSpill = "ranAgain"
    /\ \E b \in BlockIds :
          /\ \E p \in 1..Len(blocks[b]) : IsSpillLoad(blocks[b][p])
          /\ \E p \in 1..Len(blocks[b]) : blocks[b][p].retBuf \/ blocks[b][p].contained

SpillStores ==
    { n \in UNION { RangeSet(blocks[b]) : b \in BlockIds } : IsSpillStore(n) }

DefOf(st) ==
    CHOOSE d \in UNION { RangeSet(blocks[b]) : b \in BlockIds } : d.id = st.def

\* C4: the reference free-list holds locals of type ref only and the
\* interior-pointer free-list locals of type byref only; every slot holds
\* definitions of its own kind only; an aggregate spill has a local of its
\* own, which is on neither free-list.
C4_SlotKinds ==
    /\ \A i \in DOMAIN spillLclsRef : lvaTypes[spillLclsRef[i] + 1] = "TYP_REF"
    /\ \A i \in DOMAIN spillLclsByref : lvaTypes[spillLclsByref[i] + 1] = "TYP_BYREF"
    /\ \A st \in SpillStores : lvaTypes[st.lcl + 1] = DefOf(st).type
    /\ \A st \in SpillStores :
          DefOf(st).type = "TYP_STRUCT" =>
             /\ \A other \in SpillStores : other.lcl = st.lcl => other.id = st.id
             /\ \A i \in DOMAIN spillLclsRef : spillLclsRef[i] # st.lcl
             /\ \A i \in DOMAIN spillLclsByref : spillLclsByref[i] # st.lcl

\* A slot released by one spill has been handed to another one.
C4_Witness ==
    \E st \in SpillStores : \E other \in SpillStores :
        other.id # st.id /\ other.lcl = st.lcl /\ DefOf(st).type = "TYP_BYREF"

\* The node the step under way visits: the one the loop has just read.
VisitedNode == NodeOf(blocks'[bb], nextNodeId)

\* "user" uses the value "key": as an operand, or as an operand of a contained
\* operand (the operands of a contained node are used by the node containing
\* it, lines 294-295).
UsesValue(range, user, key) ==
    /\ ~isContained(user)
    /\ \/ \E k \in DOMAIN user.ops0 : user.ops0[k] = key
       \/ \E k \in DOMAIN user.ops0 :
             /\ isContained(NodeOf(range, user.ops0[k]))
             /\ \E j \in DOMAIN NodeOf(range, user.ops0[k]).ops0 :
                   NodeOf(range, user.ops0[k]).ops0[j] = key

\* The live set is empty when the loop enters a block; the marked nodes are
\* the keys of the live set, all of them nodes of the current block.
LiveSetIsTheMarkedNodes ==
    /\ (pcSpill = "run1" /\ blocks[bb] = <<>>) => liveGcDefs = <<>>
    /\ pcSpill # "off" =>
          /\ \A b \in BlockIds : \A i \in 1..Len(blocks[b]) :
                blocks[b][i].mark <=> (b = bb /\ HasKey(liveGcDefs, blocks[b][i].id))
          /\ \A i \in 1..Len(liveGcDefs) : InRange(blocks[bb], liveGcDefs[i].key)
          /\ \A i, j \in 1..Len(liveGcDefs) :
                liveGcDefs[i].key = liveGcDefs[j].key => i = j

\* A key leaves the live set when the node that uses it is visited, and only
\* then; a node that has been visited and is not in the live set does not come
\* (back) into it.
LiveDefsLeaveAtTheirUse ==
    [][pcSpill = "run1" =>
         /\ \A i \in 1..Len(liveGcDefs) :
               IF Len(blocks'[bb]) > Len(blocks[bb])
                  /\ UsesValue(blocks'[bb], VisitedNode, liveGcDefs[i].key)
               THEN /\ ~HasKey(liveGcDefs', liveGcDefs[i].key)
                    /\ ~NodeOf(blocks'[bb], liveGcDefs[i].key).mark
               ELSE HasKey(liveGcDefs', liveGcDefs[i].key)
         /\ \A i \in 1..Len(blocks[bb]) :
               ~HasKey(liveGcDefs, blocks[bb][i].id) => ~HasKey(liveGcDefs', blocks[bb][i].id)]_vars

\* C16: the live set is empty at the start of every block; a node is marked
\* exactly while it is a key of the live set; a key is taken out of the set,
\* and its mark cleared, when the node using it is visited, and it does not
\* come back.
C16_LiveSetAndMarks == []LiveSetIsTheMarkedNodes /\ LiveDefsLeaveAtTheirUse

\* A definition has been live, has been taken out at its use, and another one
\* is live now.
C16_Witness ==
    /\ pcSpill = "run1"
    /\ liveGcDefs # <<>>
    /\ \E i, j \in 1..Len(blocks[bb]) :
          /\ i < j
          /\ DefinesGcTemp(blocks[bb][i])
          /\ ~blocks[bb][i].mark
          /\ UsesValue(blocks[bb], blocks[bb][j], blocks[bb][i].id)

\* The function the spiller was given, with every node at the address that is
\* its number.
Readdressed(range) ==
    LET input == SelectSeq(range, LAMBDA n : ~n.spill)
    IN [i \in 1..Len(input) |->
          [input[i] EXCEPT !.ops = input[i].ops0, !.mark = FALSE,
                           !.addr = IF @ = NoAddr THEN NoAddr ELSE input[i].id]]

\* What the spiller has made of a block, without the identities of the nodes
\* it created: where the stores and the loads are, of which definition and of
\* which local, and what each operand of each node is.
SpillView(range) ==
    [i \in 1..Len(range) |->
        IF range[i].spill
        THEN <<range[i].oper, range[i].lcl, range[i].def>>
        ELSE <<"node", range[i].id,
               [k \in DOMAIN range[i].ops |->
                   LET op == NodeOf(range, range[i].ops[k])
                   IN IF op.spill THEN <<"load", op.lcl, op.def>>
                                  ELSE <<"value", op.id>>]>>]

\* The run of the spiller on the function with the addresses of Readdressed.
ReaddressedRun ==
    SpillBlocks([blocks |-> [b \in 1..Len(blocks) |-> Readdressed(blocks[b])],
                 s |-> [range |-> <<>>, live |-> <<>>, ref |-> <<>>, byref |-> <<>>,
                        lva |-> <<"TYP_REF">>, stack |-> <<>>, nid |-> nextNodeId,
                        ret |-> BAD_VAR_NUM],
                 heap |-> FALSE], 1)

\* C19: the run on the same function with its nodes at other addresses spills
\* the same definitions, in the same order (the locals are numbered in the
\* order the spills are made), to the same locals, and reloads them at the
\* same places.
C19_SameSpillsAtOtherAddresses ==
    pcSpill = "ran" =>
       LET other == ReaddressedRun
       IN /\ \A b \in BlockIds : SpillView(other.blocks[b]) = SpillView(blocks[b])
          /\ other.s.lva = lvaTypes

\* Two definitions whose addresses are in the order opposite to the one of
\* their numbers were live at a safe point, and both have been spilled there.
C19_Witness ==
    /\ pcSpill = "ran"
    /\ \E b \in BlockIds : \E i, j, p \in 1..Len(blocks[b]) :
          /\ i < j /\ j < p
          /\ blocks[b][i].addr # NoAddr /\ blocks[b][j].addr # NoAddr
          /\ blocks[b][i].addr > blocks[b][j].addr
          /\ blocks[b][i].type = blocks[b][j].type
          /\ isPotentialGcSafePoint(blocks[b][p]) /\ ~blocks[b][p].spill
          /\ \E l1, l2 \in (p + 1)..Len(blocks[b]) :
                /\ IsSpillLoad(blocks[b][l1]) /\ blocks[b][l1].def = blocks[b][i].id
                /\ IsSpillLoad(blocks[b][l2]) /\ blocks[b][l2].def = blocks[b][j].id
                /\ blocks[b][l1].lcl # blocks[b][l2].lcl

\* The stores and loads the step under way has put in the block.
NewSpillNodes == { n \in RangeSet(blocks'[bb]) : n.spill /\ n.id > nextNodeId }

\* The store made for the return buffer of the call visited (lines 274-284).
RetBufStores ==
    { n \in NewSpillNodes :
        /\ IsSpillStore(n)
        /\ HasRetBuffer(VisitedNode)
        /\ n.def = VisitedNode.ops0[1] }

FreeList(type) == IF type = "TYP_REF" THEN spillLclsRef ELSE spillLclsByref

FreeListAfter(type) == IF type = "TYP_REF" THEN spillLclsRef' ELSE spillLclsByref'

SeqElems(f) == { f[i] : i \in 1..Len(f) }

\* A visit pops for the return buffer first, then releases the slots of the
\* operands it reloads, then spills at the safe point. For each kind: the
\* return buffer gets the top of the list if there is one; the spills at the
\* safe point take distinct slots out of the free ones, and new locals only
\* for as many definitions as there are more than free slots; what is left of
\* the free slots is the list afterwards.
SpillsTakeFreeSlots ==
    [][(pcSpill = "run1" /\ Len(blocks'[bb]) > Len(blocks[bb])) =>
         \A type \in {"TYP_REF", "TYP_BYREF"} :
            LET stores == { n \in NewSpillNodes :
                              IsSpillStore(n) /\ NodeOf(blocks'[bb], n.def).type = type }
                atRetBuf == stores \cap RetBufStores
                atSafePoint == stores \ RetBufStores
                loads == { n \in NewSpillNodes : IsSpillLoad(n) /\ n.type = type }
                free == SeqElems(FreeList(type)) \cup { l.lcl : l \in loads }
                fresh == { n \in atSafePoint : n.lcl \notin free }
            IN /\ \A r \in atRetBuf :
                     IF FreeList(type) # <<>>
                     THEN r.lcl = FreeList(type)[Len(FreeList(type))]
                     ELSE r.lcl = Len(lvaTypes)
               /\ \A n, m \in atSafePoint : n.lcl = m.lcl => n.id = m.id
               /\ Cardinality(fresh) =
                     (IF Cardinality(atSafePoint) > Cardinality(free)
                      THEN Cardinality(atSafePoint) - Cardinality(free) ELSE 0)
               /\ \A n \in fresh : n.lcl >= Len(lvaTypes)
               /\ SeqElems(FreeListAfter(type)) = free \ { n.lcl : n \in atSafePoint }]_vars

HasSpillStore(range, defId) ==
    \E p \in 1..Len(range) : IsSpillStore(range[p]) /\ range[p].def = defId

\* Of two reference definitions spilled one after the other, the first one
\* reloaded before the second is defined, the second has the slot of the first.
SequentialSpillsShareSlot ==
    \A b \in BlockIds : \A d1, d2 \in 1..Len(blocks[b]) :
        LET range == blocks[b]
            Spilled(d) == /\ ~range[d].spill /\ range[d].type = "TYP_REF"
                          /\ HasSpillStore(range, range[d].id)
        IN (/\ d1 < d2
            /\ Spilled(d1) /\ Spilled(d2)
            /\ \A d \in (d1 + 1)..(d2 - 1) : ~Spilled(d)
            /\ \E p \in 1..(d2 - 1) : IsSpillLoad(range[p]) /\ range[p].def = range[d1].id)
           => range[StorePos(range, range[d1].id)].lcl
                 = range[StorePos(range, range[d2].id)].lcl

SpilledOnce ==
    \A n, m \in SpillStores : n.def = m.def => n.id = m.id

\* A live definition has a slot recorded exactly when it has a spill store,
\* which stores to that slot; every load the spiller made for a definition
\* reads the slot the definition was stored to.
RecordedSlotIsStoredTo ==
    /\ pcSpill = "run1" =>
          \A i \in 1..Len(liveGcDefs) :
             IF liveGcDefs[i].value = BAD_VAR_NUM
             THEN ~HasSpillStore(blocks[bb], liveGcDefs[i].key)
             ELSE /\ HasSpillStore(blocks[bb], liveGcDefs[i].key)
                  /\ blocks[bb][StorePos(blocks[bb], liveGcDefs[i].key)].lcl
                        = liveGcDefs[i].value
    /\ \A b \in BlockIds : \A pl \in 1..Len(blocks[b]) :
          IsSpillLoad(blocks[b][pl]) =>
             /\ HasSpillStore(blocks[b], blocks[b][pl].def)
             /\ blocks[b][StorePos(blocks[b], blocks[b][pl].def)].lcl = blocks[b][pl].lcl

\* The user of "key" reads the node "loadId" in its place.
ReadsInPlaceOf(range, key, loadId) ==
    \E u \in RangeSet(range) : \E k \in DOMAIN u.ops0 :
        u.ops0[k] = key /\ u.ops[k] = loadId

\* A slot recorded for a live definition stays recorded while the definition
\* is live, and the step that takes the definition out of the live set makes
\* its user read a load of that slot.
RecordedSlotKeptUntilUse ==
    [][pcSpill = "run1" =>
         \A i \in 1..Len(liveGcDefs) :
            liveGcDefs[i].value # BAD_VAR_NUM =>
               IF HasKey(liveGcDefs', liveGcDefs[i].key)
               THEN TryGetValue(liveGcDefs', liveGcDefs[i].key) = liveGcDefs[i].value
               ELSE \E n \in NewSpillNodes :
                       /\ IsSpillLoad(n)
                       /\ n.def = liveGcDefs[i].key
                       /\ n.lcl = liveGcDefs[i].value
                       /\ ReadsInPlaceOf(blocks'[bb], liveGcDefs[i].key, n.id)]_vars

\* C22: a definition is spilled once only: no definition ever has two spill
\* stores, the slot recorded for a live definition at a safe point is the one
\* recorded at every later safe point, and the use of the definition reads a
\* load of that slot.
C22_SpilledOnceOnly ==
    /\ [](SpilledOnce /\ RecordedSlotIsStoredTo)
    /\ RecordedSlotKeptUntilUse

\* A definition was live across two safe points and has been used: it has its
\* store and its user reads the load.
C22_Witness ==
    /\ pcSpill = "run1"
    /\ \E pd, p1, p2, pl \in 1..Len(blocks[bb]) :
          LET range == blocks[bb]
          IN /\ pd < p1 /\ p1 < p2 /\ p2 < pl
             /\ ~range[pd].spill
             /\ ~range[p1].spill /\ range[p1].safePoint
             /\ ~range[p2].spill /\ range[p2].safePoint
             /\ IsSpillLoad(range[pl])
             /\ range[pl].def = range[pd].id
             /\ ReadsInPlaceOf(range, range[pd].id, range[pl].id)
             /\ HasSpillStore(range, range[pd].id)

\* The return buffer argument "arg" of "call" has its store right after it
\* and the call reads a load of the store's local.
RetBufSpilled(range, call, arg) ==
    LET pd == PosOf(range, arg)
    IN /\ pd < Len(range)
       /\ IsSpillStore(range[pd + 1])
       /\ range[pd + 1].ops = <<arg>>
       /\ call.ops[1] # arg
       /\ InRange(range, call.ops[1])
       /\ IsSpillLoad(NodeOf(range, call.ops[1]))
       /\ NodeOf(range, call.ops[1]).lcl = range[pd + 1].lcl
       /\ PosOf(range, call.ops[1]) < PosOf(range, call.id)
       /\ pd + 1 < PosOf(range, call.ops[1])

\* C23: when a call with a return buffer is visited, a return buffer argument
\* that is marked live is spilled there, with or without a safe point between
\* the two: afterwards a store of the argument to a spill local is right after
\* the argument and the call's return buffer operand is a load of that local;
\* an argument that is not marked is left as it is.
C23_ReturnBufferSpilledAtCall ==
    [][(pcSpill = "run1" /\ Len(blocks'[bb]) > Len(blocks[bb])
          /\ IsCall(VisitedNode) /\ HasRetBuffer(VisitedNode)) =>
         LET arg == VisitedNode.ops0[1]
         IN IF NodeOf(blocks[bb], arg).mark
            THEN RetBufSpilled(blocks'[bb], VisitedNode, arg)
            ELSE /\ VisitedNode.ops = VisitedNode.ops0
                 /\ NodeOf(blocks'[bb], arg) = NodeOf(blocks[bb], arg)
                 /\ \A n \in NewSpillNodes : n.def # arg
                 /\ ~HasSpillStore(blocks'[bb], arg)]_vars

\* A call reads its return buffer through a load although no safe point lies
\* between the buffer's definition and the call.
C23_Witness ==
    /\ pcSpill = "run1"
    /\ \E pc \in 1..Len(blocks[bb]) :
          LET range == blocks[bb]
              call == range[pc]
          IN /\ IsCall(call) /\ HasRetBuffer(call)
             /\ call.ops[1] # call.ops0[1]
             /\ RetBufSpilled(range, call, call.ops0[1])
             /\ ~SafePointBetween(range, PosOf(range, call.ops0[1]), pc)

\* ------------------------------------------------------------------------
\* Basic blocks and the EH table
\* ------------------------------------------------------------------------
NoBlock == 0

NO_ENCLOSING_INDEX == 65535

\* bbTryIndex and bbHndIndex hold 0 for "none" and the region number plus one.
hasTryIndex(block) == block.bbTryIndex # 0

hasHndIndex(block) == block.bbHndIndex # 0

getTryIndex(block) == block.bbTryIndex - 1

getHndIndex(block) == block.bbHndIndex - 1

bbNewBasicBlock(num, jumpKind) ==
    [bbNum |-> num, bbJumpKind |-> jumpKind, bbTryIndex |-> 0, bbHndIndex |-> 0,
     bbCatchTyp |-> "BBCT_NONE", bbFlags |-> {}, bbStmts |-> <<>>]

BlockPos(bbs, num) == CHOOSE i \in 1..Len(bbs) : bbs[i].bbNum = num

BlockOf(bbs, num) == bbs[BlockPos(bbs, num)]

\* Apply "Upd" to the block numbered "num".
UpdateBlock(bbs, num, Upd(_)) ==
    [i \in 1..Len(bbs) |-> IF bbs[i].bbNum = num THEN Upd(bbs[i]) ELSE bbs[i]]

\* "c" is the compiler's state: [bbs, scratch, tab, next].
fgEnsureFirstBBisScratch(c) ==
    IF c.scratch # NoBlock THEN c
    ELSE [c EXCEPT !.bbs = <<[bbNewBasicBlock(c.next, "BBJ_NONE")
                                EXCEPT !.bbFlags = {"BBF_INTERNAL", "BBF_IMPORTED"}]>> \o @,
                   !.scratch = c.next,
                   !.next = c.next + 1]

\* The new block follows "afterNum"; the caller sets its EH indices.
fgNewBBafter(c, jumpKind, afterNum) ==
    LET p == BlockPos(c.bbs, afterNum)
    IN [c EXCEPT !.bbs = SubSeq(@, 1, p) \o <<bbNewBasicBlock(c.next, jumpKind)>>
                            \o SubSeq(@, p + 1, Len(@)),
                 !.next = c.next + 1]

NewEHblkDsc ==
    [ebdHandlerType |-> "EH_HANDLER_NONE", ebdTryBeg |-> NoBlock, ebdTryLast |-> NoBlock,
     ebdFilter |-> NoBlock, ebdHndBeg |-> NoBlock, ebdHndLast |-> NoBlock,
     ebdEnclosingTryIndex |-> NO_ENCLOSING_INDEX,
     ebdEnclosingHndIndex |-> NO_ENCLOSING_INDEX]

\* An entry is added at the end of the table (XTnum = compHndBBtabCount).
fgAddEHTableEntry(c, XTnum) == [c EXCEPT !.tab = Append(@, NewEHblkDsc)]

\* ------------------------------------------------------------------------
\* Llvm::AddUnhandledExceptionHandler
\* ------------------------------------------------------------------------
\* The first block is taken as it is.
SelectFirstTryBlock_NoScratch(c) ==
    [c |-> [c EXCEPT !.scratch = NoBlock], firstTryBlock |-> c.bbs[1].bbNum]

\* Lines 14-24: the block the new try region begins with.
SelectFirstTryBlock(c) ==
    IF hasTryIndex(c.bbs[1])
    THEN LET c1 == fgEnsureFirstBBisScratch(c)
         IN [c |-> [c1 EXCEPT !.scratch = NoBlock], firstTryBlock |-> c1.scratch]
    ELSE [c |-> [c EXCEPT !.scratch = NoBlock], firstTryBlock |-> c.bbs[1].bbNum]

\* The new entry with the handler block as its filter.
InitEhDsc_Swapped(dsc, firstTryBlock, lastTryBlock, filterBlock, handlerBlock) ==
    [dsc EXCEPT !.ebdHandlerType = "EH_HANDLER_FILTER",
                !.ebdTryBeg = firstTryBlock,
                !.ebdTryLast = lastTryBlock,
                !.ebdFilter = handlerBlock,
                !.ebdHndBeg = filterBlock,
                !.ebdHndLast = filterBlock,
                !.ebdEnclosingTryIndex = NO_ENCLOSING_INDEX,
                !.ebdEnclosingHndIndex = NO_ENCLOSING_INDEX]

\* Lines 36-44: the new entry.
InitEhDsc(dsc, firstTryBlock, lastTryBlock, filterBlock, handlerBlock) ==
    [dsc EXCEPT !.ebdHandlerType = "EH_HANDLER_FILTER",
                !.ebdTryBeg = firstTryBlock,
                !.ebdTryLast = lastTryBlock,
                !.ebdFilter = filterBlock,
                !.ebdHndBeg = handlerBlock,
                !.ebdHndLast = handlerBlock,
                !.ebdEnclosingTryIndex = NO_ENCLOSING_INDEX,
                !.ebdEnclosingHndIndex = NO_ENCLOSING_INDEX]

\* Lines 55-57.
MarkTryBeg(block, newEhIndex) ==
    [block EXCEPT !.bbFlags = @ \cup {"BBF_DONT_REMOVE", "BBF_TRY_BEG", "BBF_IMPORTED"},
                  !.bbTryIndex = newEhIndex + 1,
                  !.bbHndIndex = 0]

\* Lines 59-67: the filter block and the handler block.
MarkHandlerBlock(block, newEhIndex, catchTyp) ==
    [block EXCEPT !.bbFlags = @ \cup {"BBF_DONT_REMOVE", "BBF_IMPORTED"},
                  !.bbCatchTyp = catchTyp,
                  !.bbTryIndex = 0,
                  !.bbHndIndex = newEhIndex + 1]

\* Every block from firstTryBlock to lastTryBlock gets the new try index.
SetTryIndexOfUserBlocks_All(bbs, firstTryBlock, lastTryBlock, newEhIndex) ==
    [i \in 1..Len(bbs) |->
        IF BlockPos(bbs, firstTryBlock) <= i /\ i <= BlockPos(bbs, lastTryBlock)
        THEN [bbs[i] EXCEPT !.bbTryIndex = newEhIndex + 1]
        ELSE bbs[i]]

\* Lines 71-77: the blocks from firstTryBlock to lastTryBlock without a try index
\* get the new one.
SetTryIndexOfUserBlocks(bbs, firstTryBlock, lastTryBlock, newEhIndex) ==
    [i \in 1..Len(bbs) |->
        IF /\ BlockPos(bbs, firstTryBlock) <= i
           /\ i <= BlockPos(bbs, lastTryBlock)
           /\ ~hasTryIndex(bbs[i])
        THEN [bbs[i] EXCEPT !.bbTryIndex = newEhIndex + 1]
        ELSE bbs[i]]

\* No entry is nested in the new one.
NestInNewRegion_Unnested(tab, newEhIndex) == tab

\* Every entry is nested in the new one.
NestInNewRegion_All(tab, newEhIndex) ==
    [i \in 1..Len(tab) |->
        IF i - 1 < newEhIndex
        THEN [tab[i] EXCEPT !.ebdEnclosingTryIndex = newEhIndex % 65536]
        ELSE tab[i]]

\* Lines 81-89: the entries without an enclosing try are nested in the new one.
\* The index is stored in an unsigned short.
NestInNewRegion(tab, newEhIndex) ==
    [i \in 1..Len(tab) |->
        IF i - 1 < newEhIndex /\ tab[i].ebdEnclosingTryIndex = NO_ENCLOSING_INDEX
        THEN [tab[i] EXCEPT !.ebdEnclosingTryIndex = newEhIndex % 65536]
        ELSE tab[i]]

\* Lines 91-96: the call of the unhandled exception helper in the filter.
InsertHandlerCall(block) ==
    [block EXCEPT !.bbStmts =
        Append(@, "CALL help CORINFO_HELP_LLVM_EH_UNHANDLED_EXCEPTION(CATCH_ARG)")]

WithUnhandledExceptionHandler(c0) ==
    LET lastTryBlock == c0.bbs[Len(c0.bbs)].bbNum
        sel == SelectFirstTryBlock(c0)
        firstTryBlock == sel.firstTryBlock
        c1 == fgNewBBafter(sel.c, "BBJ_THROW", lastTryBlock)
        filterBlock == c1.next - 1
        c2 == fgNewBBafter(c1, "BBJ_THROW", filterBlock)
        handlerBlock == c2.next - 1
        newEhIndex == Len(c2.tab)
        c3 == fgAddEHTableEntry(c2, newEhIndex)
        tab1 == [c3.tab EXCEPT ![newEhIndex + 1] =
                    InitEhDsc(@, firstTryBlock, lastTryBlock, filterBlock, handlerBlock)]
        MarkFirst(b) == MarkTryBeg(b, newEhIndex)
        MarkFilter(b) == MarkHandlerBlock(b, newEhIndex, "BBCT_FILTER")
        MarkHandler(b) == MarkHandlerBlock(b, newEhIndex, "BBCT_FILTER_HANDLER")
        bbs1 == UpdateBlock(c3.bbs, firstTryBlock, MarkFirst)
        bbs2 == UpdateBlock(bbs1, filterBlock, MarkFilter)
        bbs3 == UpdateBlock(bbs2, handlerBlock, MarkHandler)
        bbs4 == SetTryIndexOfUserBlocks(bbs3, firstTryBlock, lastTryBlock, newEhIndex)
        tab2 == NestInNewRegion(tab1, newEhIndex)
        bbs5 == UpdateBlock(bbs4, filterBlock, InsertHandlerCall)
    IN [c3 EXCEPT !.bbs = bbs5, !.tab = tab2]

AddUnhandledExceptionHandler ==
    /\ pcEH = "start"
    /\ LET c0 == [bbs |-> fgBlocks, scratch |-> fgFirstBBScratch, tab |-> compHndBBtab,
                  next |-> nextBBNum]
           c == IF ~IsReversePInvoke THEN c0 ELSE WithUnhandledExceptionHandler(c0)
       IN /\ fgBlocks' = c.bbs
          /\ fgFirstBBScratch' = c.scratch
          /\ compHndBBtab' = c.tab
          /\ nextBBNum' = c.next
    /\ pcEH' = "done"
    /\ UNCHANGED IsReversePInvoke

\* ------------------------------------------------------------------------
\* The functions AddUnhandledExceptionHandler is given: nB blocks and a
\* well-formed EH table over them. A region is a try range followed by its
\* handler range; inner regions come before the regions enclosing them; no two
\* regions begin their try with the same block.
\* ------------------------------------------------------------------------
Geometries(nB) ==
    { g \in [tryBeg : 1..nB, tryLast : 1..nB, hndLast : 1..nB] :
        g.tryBeg <= g.tryLast /\ g.tryLast < g.hndLast }

InTry(g, lo, hi) == g.tryBeg <= lo /\ hi <= g.tryLast

InHnd(g, lo, hi) == g.tryLast + 1 <= lo /\ hi <= g.hndLast

Disjoint(g, h) == g.hndLast < h.tryBeg \/ h.hndLast < g.tryBeg

WellNested(gs) ==
    \A i, j \in DOMAIN gs :
        i < j => /\ gs[i].tryBeg # gs[j].tryBeg
                 /\ \/ InTry(gs[j], gs[i].tryBeg, gs[i].hndLast)
                    \/ InHnd(gs[j], gs[i].tryBeg, gs[i].hndLast)
                    \/ Disjoint(gs[i], gs[j])

GeometryLists(nB) ==
    { gs \in UNION { [1..n -> Geometries(nB)] : n \in 0..MaxRegions } : WellNested(gs) }

\* The nearest region after i that holds region i in its try (handler) range.
Enclosing(gs, i, In(_, _, _)) ==
    LET cand == { j \in DOMAIN gs : j > i /\ In(gs[j], gs[i].tryBeg, gs[i].hndLast) }
    IN IF cand = {} THEN NO_ENCLOSING_INDEX
       ELSE (CHOOSE j \in cand : \A k \in cand : j <= k) - 1

\* The innermost region holding block p in its try (handler) range, plus one.
InnermostIndex(gs, p, In(_, _, _)) ==
    LET cand == { j \in DOMAIN gs : In(gs[j], p, p) }
    IN IF cand = {} THEN 0 ELSE CHOOSE j \in cand : \A k \in cand : j <= k

TableOf(gs) ==
    [i \in DOMAIN gs |->
        [ebdHandlerType |-> "EH_HANDLER_CATCH",
         ebdTryBeg |-> gs[i].tryBeg, ebdTryLast |-> gs[i].tryLast,
         ebdFilter |-> NoBlock,
         ebdHndBeg |-> gs[i].tryLast + 1, ebdHndLast |-> gs[i].hndLast,
         ebdEnclosingTryIndex |-> Enclosing(gs, i, InTry),
         ebdEnclosingHndIndex |-> Enclosing(gs, i, InHnd)]]

BlocksOf(gs, nB) ==
    [p \in 1..nB |->
        [bbNewBasicBlock(p, "BBJ_NONE")
            EXCEPT !.bbTryIndex = InnermostIndex(gs, p, InTry),
                   !.bbHndIndex = InnermostIndex(gs, p, InHnd),
                   !.bbFlags = {"BBF_IMPORTED"}]]

InitEH ==
    /\ \E nB \in 1..MaxBBs : \E gs \in GeometryLists(nB) :
          /\ fgBlocks = BlocksOf(gs, nB)
          /\ compHndBBtab = TableOf(gs)
          /\ nextBBNum = nB + 1
          /\ fgFirstBBScratch \in
                {NoBlock} \cup (IF hasTryIndex(BlocksOf(gs, nB)[1]) \/ hasHndIndex(BlocksOf(gs, nB)[1])
                                THEN {} ELSE {1})
    /\ IsReversePInvoke \in BOOLEAN
    /\ pcEH = "start"

NextEH ==
    /\ AddUnhandledExceptionHandler
    /\ UNCHANGED <<spillVars, localsVars, lowerVars, rangeVars, structVars,
                   m_lclHeapUsed, ehAnyFunclets>>

StartEH ==
    /\ InitEH /\ SpillOff /\ LocalsOff /\ LowerOff /\ RangeOff /\ StructOff
    /\ m_lclHeapUsed = FALSE /\ ehAnyFunclets = FALSE

SpecEH == StartEH /\ [][NextEH]_vars

\* ------------------------------------------------------------------------
\* Properties of AddUnhandledExceptionHandler
\* ------------------------------------------------------------------------
Synthesizing == pcEH = "start" /\ IsReversePInvoke

\* C8: the new region is appended after every region there was (these keep
\* their places), it has no enclosing try and no enclosing handler, the
\* regions that had no enclosing try have the new region as enclosing try and
\* the others keep theirs.
C8_NewRegionIsLastAndOutermost ==
    [][Synthesizing =>
         LET n == Len(compHndBBtab)
         IN /\ Len(compHndBBtab') = n + 1
            /\ compHndBBtab'[n + 1].ebdHandlerType = "EH_HANDLER_FILTER"
            /\ compHndBBtab'[n + 1].ebdEnclosingTryIndex = NO_ENCLOSING_INDEX
            /\ compHndBBtab'[n + 1].ebdEnclosingHndIndex = NO_ENCLOSING_INDEX
            /\ \A i \in 1..n :
                  /\ compHndBBtab'[i].ebdTryBeg = compHndBBtab[i].ebdTryBeg
                  /\ compHndBBtab'[i].ebdHandlerType = compHndBBtab[i].ebdHandlerType
                  /\ compHndBBtab'[i].ebdEnclosingHndIndex = compHndBBtab[i].ebdEnclosingHndIndex
                  /\ IF compHndBBtab[i].ebdEnclosingTryIndex = NO_ENCLOSING_INDEX
                     THEN compHndBBtab'[i].ebdEnclosingTryIndex = n
                     ELSE compHndBBtab'[i].ebdEnclosingTryIndex
                             = compHndBBtab[i].ebdEnclosingTryIndex]_vars

\* The table had a region nested in another one and a region nested in none.
C8_Witness ==
    /\ pcEH = "done"
    /\ IsReversePInvoke
    /\ Len(compHndBBtab) = 3
    /\ compHndBBtab[1].ebdEnclosingTryIndex = 1
    /\ compHndBBtab[2].ebdEnclosingTryIndex = 2

OldBlockNums == { fgBlocks[i].bbNum : i \in DOMAIN fgBlocks }

\* C9: afterwards no two regions begin their try with the same block; the new
\* region begins with a new, empty first block when the first block was in a
\* try region, and with the original first block otherwise.
C9_TryBeginsDistinct ==
    [][Synthesizing =>
         LET n == Len(compHndBBtab)
         IN /\ \A i, j \in DOMAIN compHndBBtab' :
                  i # j => compHndBBtab'[i].ebdTryBeg # compHndBBtab'[j].ebdTryBeg
            /\ IF hasTryIndex(fgBlocks[1])
               THEN /\ fgBlocks'[1].bbNum \notin OldBlockNums
                    /\ fgBlocks'[1].bbStmts = <<>>
                    /\ fgBlocks'[2].bbNum = fgBlocks[1].bbNum
                    /\ compHndBBtab'[n + 1].ebdTryBeg = fgBlocks'[1].bbNum
               ELSE /\ fgBlocks'[1].bbNum = fgBlocks[1].bbNum
                    /\ compHndBBtab'[n + 1].ebdTryBeg = fgBlocks[1].bbNum]_vars

\* The first block began a try region and a new first block was split off.
C9_Witness ==
    /\ pcEH = "done"
    /\ IsReversePInvoke
    /\ Len(compHndBBtab) >= 2
    /\ \E i \in 1..(Len(compHndBBtab) - 1) : compHndBBtab[i].ebdTryBeg = fgBlocks[2].bbNum
    /\ compHndBBtab[Len(compHndBBtab)].ebdTryBeg = fgBlocks[1].bbNum

\* C10: with an empty table, afterwards there is one entry; its try range is
\* [original first block, original last block]; its filter and its handler are
\* two new blocks of kind throw after the original last block, the filter first;
\* their catch kinds are "filter" and "filter-handler".
C10_SingleRegionOverBody ==
    [][(Synthesizing /\ compHndBBtab = <<>>) =>
         LET n == Len(fgBlocks)
             dsc == compHndBBtab'[1]
         IN /\ Len(compHndBBtab') = 1
            /\ dsc.ebdTryBeg = fgBlocks[1].bbNum
            /\ dsc.ebdTryLast = fgBlocks[n].bbNum
            /\ Len(fgBlocks') = n + 2
            /\ \A i \in 1..n : fgBlocks'[i].bbNum = fgBlocks[i].bbNum
            /\ fgBlocks'[n + 1].bbNum = dsc.ebdFilter
            /\ fgBlocks'[n + 2].bbNum = dsc.ebdHndBeg
            /\ dsc.ebdHndLast = dsc.ebdHndBeg
            /\ dsc.ebdFilter # dsc.ebdHndBeg
            /\ {dsc.ebdFilter, dsc.ebdHndBeg} \cap OldBlockNums = {}
            /\ fgBlocks'[n + 1].bbJumpKind = "BBJ_THROW"
            /\ fgBlocks'[n + 2].bbJumpKind = "BBJ_THROW"
            /\ fgBlocks'[n + 1].bbCatchTyp = "BBCT_FILTER"
            /\ fgBlocks'[n + 2].bbCatchTyp = "BBCT_FILTER_HANDLER"]_vars

\* A function of several blocks without regions has got its region.
C10_Witness ==
    /\ pcEH = "done"
    /\ IsReversePInvoke
    /\ Len(compHndBBtab) = 1
    /\ Len(fgBlocks) >= 4
    /\ compHndBBtab[1].ebdTryBeg = fgBlocks[1].bbNum

\* The block numbered "num" as it was before the step, NoBlock's stand-in when
\* the step created it.
WasBlock(num) == num \in OldBlockNums

\* C21: afterwards every block from the try-begin block of the new region to
\* the original last block has a try index: the new region's for the try-begin
\* block and for the blocks that had none, the previous one for the others;
\* the filter block and the handler block have no try index and the new
\* region's index as handler index.
C21_TryIndicesAfterSynthesis ==
    [][Synthesizing =>
         LET n == Len(compHndBBtab)
             dsc == compHndBBtab'[n + 1]
             first == BlockPos(fgBlocks', dsc.ebdTryBeg)
             last == BlockPos(fgBlocks', fgBlocks[Len(fgBlocks)].bbNum)
         IN /\ dsc.ebdTryLast = fgBlocks[Len(fgBlocks)].bbNum
            /\ first = 1
            /\ \A i \in first..last :
                  LET block == fgBlocks'[i]
                  IN /\ hasTryIndex(block)
                     /\ IF block.bbNum = dsc.ebdTryBeg
                        THEN getTryIndex(block) = n
                        ELSE /\ WasBlock(block.bbNum)
                             /\ IF hasTryIndex(BlockOf(fgBlocks, block.bbNum))
                                THEN block.bbTryIndex
                                        = BlockOf(fgBlocks, block.bbNum).bbTryIndex
                                ELSE getTryIndex(block) = n
            /\ \A num \in {dsc.ebdFilter, dsc.ebdHndBeg} :
                  /\ ~hasTryIndex(BlockOf(fgBlocks', num))
                  /\ hasHndIndex(BlockOf(fgBlocks', num))
                  /\ getHndIndex(BlockOf(fgBlocks', num)) = n]_vars

\* A function with a region got its new region: a block of the old region's try
\* range kept its index and a block outside of every try range, which is not
\* the try-begin block, got the new one.
C21_Witness ==
    /\ pcEH = "done"
    /\ IsReversePInvoke
    /\ Len(compHndBBtab) >= 2
    /\ \E i, j \in DOMAIN fgBlocks :
          /\ i > 1 /\ j > 1
          /\ hasTryIndex(fgBlocks[i]) /\ getTryIndex(fgBlocks[i]) < Len(compHndBBtab) - 1
          /\ hasTryIndex(fgBlocks[j]) /\ getTryIndex(fgBlocks[j]) = Len(compHndBBtab) - 1
          /\ fgBlocks[j].bbCatchTyp = "BBCT_NONE"
    /\ \E k \in DOMAIN fgBlocks :
          /\ fgBlocks[k].bbCatchTyp = "BBCT_FILTER"
          /\ getHndIndex(fgBlocks[k]) = Len(compHndBBtab) - 1

\* An enclosing index of the table "tab" is "none" or the index of an entry.
ValidEnclosing(tab, index) ==
    index = NO_ENCLOSING_INDEX \/ index \in 0..(Len(tab) - 1)

\* Every region's enclosing try is "none" or a region after it.
EnclosingTryAfter(tab) ==
    \A i \in DOMAIN tab :
        \/ tab[i].ebdEnclosingTryIndex = NO_ENCLOSING_INDEX
        \/ /\ tab[i].ebdEnclosingTryIndex > i - 1
           /\ tab[i].ebdEnclosingTryIndex \in 0..(Len(tab) - 1)

\* C24: a table whose regions have no enclosing try or a later region as
\* enclosing try is enlarged to such a table, in which every enclosing try
\* index and every enclosing handler index is "none" or the index of an entry,
\* the last region, the new one, is the only one without an enclosing try, and
\* no region encloses itself.
C24_EnclosingIndicesWellFormed ==
    [][(Synthesizing /\ EnclosingTryAfter(compHndBBtab)) =>
         LET tab == compHndBBtab'
         IN /\ Len(tab) = Len(compHndBBtab) + 1
            /\ EnclosingTryAfter(tab)
            /\ \A i \in DOMAIN tab :
                  /\ ValidEnclosing(tab, tab[i].ebdEnclosingTryIndex)
                  /\ ValidEnclosing(tab, tab[i].ebdEnclosingHndIndex)
                  /\ tab[i].ebdEnclosingTryIndex # i - 1
                  /\ tab[i].ebdEnclosingHndIndex # i - 1
            /\ { i \in DOMAIN tab : tab[i].ebdEnclosingTryIndex = NO_ENCLOSING_INDEX }
                  = {Len(tab)}
            /\ tab[Len(tab)].ebdHandlerType = "EH_HANDLER_FILTER"]_vars

\* The table had a region in the handler of another one, which had no enclosing
\* try: the new region is the enclosing try of both.
C24_Witness ==
    /\ pcEH = "done"
    /\ IsReversePInvoke
    /\ Len(compHndBBtab) = 3
    /\ compHndBBtab[1].ebdEnclosingHndIndex = 1
    /\ compHndBBtab[1].ebdEnclosingTryIndex = 2
    /\ compHndBBtab[2].ebdEnclosingTryIndex = 2
    /\ compHndBBtab[3].ebdEnclosingTryIndex = NO_ENCLOSING_INDEX

\* ------------------------------------------------------------------------
\* Llvm::lowerLocalsBeforeNodes
\* ------------------------------------------------------------------------
NoDsc == [lvType |-> "TYP_UNDEF"]

\* A local's descriptor. "isFuncletParameter" and "needsExplicitZeroInit" are
\* the answers of Llvm::isFuncletParameter(lclNum) and of
\* Compiler::fgVarNeedsExplicitZeroInit(lclNum, false, false) for the local;
\* "promotionType" is the answer of lvaGetPromotionType, "parentPromotionType"
\* the one for the parent of a struct field.
LclVarDsc(type, gc, param, tracked, liveInOut, refCnt, explicitInit, promotion,
          fieldCnt, fieldStart, isField, parentPromotion, funcletParam, needsZero) ==
    [lvType |-> type, HasGCPtr |-> gc, lvIsParam |-> param, lvTracked |-> tracked,
     lvLiveInOutOfHndlr |-> liveInOut, lvRefCnt |-> refCnt,
     lvHasExplicitInit |-> explicitInit, promotionType |-> promotion,
     lvFieldCnt |-> fieldCnt, lvFieldLclStart |-> fieldStart,
     lvIsStructField |-> isField, parentPromotionType |-> parentPromotion,
     isFuncletParameter |-> funcletParam, needsExplicitZeroInit |-> needsZero]

\* TYP_REF holds a GC pointer, TYP_INT none, a struct either.
TypesAndGc ==
    {<<"TYP_REF", TRUE>>, <<"TYP_INT", FALSE>>, <<"TYP_STRUCT", TRUE>>, <<"TYP_STRUCT", FALSE>>}

FieldTypesAndGc == {<<"TYP_REF", TRUE>>, <<"TYP_INT", FALSE>>}

PromotionTypes ==
    {"PROMOTION_TYPE_NONE", "PROMOTION_TYPE_INDEPENDENT", "PROMOTION_TYPE_DEPENDENT"}

\* What the parent's promotion fixes of a field local.
FieldDsc(type, gc, refCnt, param, parentPromotion) ==
    [lvType |-> type, HasGCPtr |-> gc, lvRefCnt |-> refCnt, lvIsParam |-> param,
     lvHasExplicitInit |-> FALSE, parentPromotionType |-> parentPromotion]

lvaIsFieldOfDependentlyPromotedStruct(dsc) ==
    dsc.lvIsStructField /\ dsc.parentPromotionType = "PROMOTION_TYPE_DEPENDENT"

genActualType(type) == type

gtNewLclFldNode(lcl, type) == [oper |-> "GT_LCL_FLD", lcl |-> lcl, type |-> type]

gtNewLclvNode(lcl, type) == [oper |-> "GT_LCL_VAR", lcl |-> lcl, type |-> type]

gtNewZeroConNode(type) == [oper |-> "GT_CNS_INT", lcl |-> BAD_VAR_NUM, type |-> type]

\* A store of "value" to the local is added to the prolog.
initializeLocalInProlog(inits, lcl, value) == Append(inits, [lcl |-> lcl, value |-> value])

\* Line 373: the descriptor of the next local. A field local is what its parent
\* made it; any other local is any local; a promoted struct is a tracked struct
\* local that has its field locals after the locals known so far.
\* lvHasExplicitInit of a local that is no field, and the answer of
\* fgVarNeedsExplicitZeroInit, are settled where the loop's body reads them.
LocalsFetch ==
    /\ pcLocals = "loop"
    /\ curLclNum < lvaCount
    /\ \/ /\ fieldDscs # <<>>
          /\ \E tracked, liveInOut, funcletParam \in BOOLEAN :
                varDsc' = LclVarDsc(fieldDscs[1].lvType, fieldDscs[1].HasGCPtr,
                                    fieldDscs[1].lvIsParam, tracked, liveInOut,
                                    fieldDscs[1].lvRefCnt,
                                    fieldDscs[1].lvHasExplicitInit,
                                    "PROMOTION_TYPE_NONE", 0, 0, TRUE,
                                    fieldDscs[1].parentPromotionType,
                                    funcletParam, FALSE)
          /\ fieldDscs' = Tail(fieldDscs)
       \/ /\ fieldDscs = <<>>
          /\ \E tg \in TypesAndGc, refCnt \in 0..1,
                param, tracked, liveInOut, funcletParam \in BOOLEAN :
                varDsc' = LclVarDsc(tg[1], tg[2], param, tracked, liveInOut, refCnt,
                                    FALSE, "PROMOTION_TYPE_NONE", 0, 0,
                                    FALSE, "PROMOTION_TYPE_NONE", funcletParam, FALSE)
          /\ fieldDscs' = <<>>
       \/ /\ fieldDscs = <<>>
          /\ \E gc, param \in BOOLEAN, refCnt \in 0..1,
                promotion \in PromotionTypes \ {"PROMOTION_TYPE_NONE"},
                fieldCnt \in 1..(lvaCount - curLclNum - 1),
                ftg \in FieldTypesAndGc, fieldRefCnt \in 0..1 :
                /\ varDsc' = LclVarDsc("TYP_STRUCT", gc, param, TRUE, FALSE, refCnt,
                                       FALSE, promotion, fieldCnt, curLclNum + 1,
                                       FALSE, "PROMOTION_TYPE_NONE", FALSE, FALSE)
                /\ fieldDscs' = [i \in 1..fieldCnt |->
                                   FieldDsc(ftg[1], ftg[2], fieldRefCnt, param, promotion)]
    /\ pcLocals' = "body"
    /\ UNCHANGED <<lvaCount, curLclNum, shadowStackLocals, prologInits, paddingLclNum,
                   useDynamicStack, m_lclHeapUsed, ehAnyFunclets>>

\* Lines 376-391: the used fields of an independently promoted parameter are
\* initialized from the parameter. "l" is [fields, inits].
RECURSIVE InitPromotedFields(_, _, _, _)
InitPromotedFields(l, num, dsc, index) ==
    IF index >= dsc.lvFieldCnt THEN l
    ELSE LET fieldLclNum == dsc.lvFieldLclStart + index
             fieldVarDsc == l.fields[fieldLclNum - num]
         IN IF fieldVarDsc.lvRefCnt # 0
            THEN InitPromotedFields(
                    [fields |-> [l.fields EXCEPT ![fieldLclNum - num].lvHasExplicitInit = TRUE],
                     inits |-> initializeLocalInProlog(l.inits, fieldLclNum,
                                    gtNewLclFldNode(num, fieldVarDsc.lvType))],
                    num, dsc, index + 1)
            ELSE InitPromotedFields(l, num, dsc, index + 1)

\* Lines 394-397.
AssumeLiveInOutOfHndlr(dsc, funclets) ==
    IF ~dsc.lvTracked /\ funclets THEN [dsc EXCEPT !.lvLiveInOutOfHndlr = TRUE] ELSE dsc

\* The membership test without the reference count.
NeedsShadowStackHome_Unreferenced(dsc) ==
    /\ ~dsc.isFuncletParameter /\ (dsc.HasGCPtr \/ dsc.lvLiveInOutOfHndlr)
    /\ dsc.promotionType # "PROMOTION_TYPE_INDEPENDENT"
    /\ ~lvaIsFieldOfDependentlyPromotedStruct(dsc)

\* Lines 403-420: the local takes a place on the shadow stack.
NeedsShadowStackHome(dsc) ==
    /\ ~dsc.isFuncletParameter /\ (dsc.HasGCPtr \/ dsc.lvLiveInOutOfHndlr)
    /\ dsc.promotionType # "PROMOTION_TYPE_INDEPENDENT"
    /\ ~lvaIsFieldOfDependentlyPromotedStruct(dsc)
    /\ dsc.lvRefCnt # 0

\* The prolog initialization with the zeroing left to the front end's answer.
InitShadowStackLocal_OracleOnly(inits, num, dsc) ==
    IF dsc.lvHasExplicitInit THEN inits
    ELSE IF dsc.lvIsParam
         THEN initializeLocalInProlog(inits, num, gtNewLclvNode(num, dsc.lvType))
    ELSE IF ~dsc.needsExplicitZeroInit
         THEN initializeLocalInProlog(inits, num,
                 gtNewZeroConNode(IF dsc.lvType = "TYP_STRUCT" THEN "TYP_INT"
                                  ELSE genActualType(dsc.lvType)))
    ELSE inits

\* Lines 431-446: the prolog initialization of a shadow stack local.
InitShadowStackLocal(inits, num, dsc) ==
    IF dsc.lvHasExplicitInit THEN inits
    ELSE IF dsc.lvIsParam
         THEN initializeLocalInProlog(inits, num, gtNewLclvNode(num, dsc.lvType))
    ELSE IF ~dsc.needsExplicitZeroInit \/ dsc.HasGCPtr
         THEN initializeLocalInProlog(inits, num,
                 gtNewZeroConNode(IF dsc.lvType = "TYP_STRUCT" THEN "TYP_INT"
                                  ELSE genActualType(dsc.lvType)))
    ELSE inits

\* Lines 375-453: the body of the loop for the local fetched.
LocalsBody ==
    /\ pcLocals = "body"
    /\ LET l0 == [fields |-> fieldDscs, inits |-> prologInits]
           l1 == IF varDsc.lvIsParam /\ varDsc.promotionType = "PROMOTION_TYPE_INDEPENDENT"
                 THEN InitPromotedFields(l0, curLclNum, varDsc, 0)
                 ELSE l0
           dsc0 == AssumeLiveInOutOfHndlr(varDsc, ehAnyFunclets)
       IN \E explicitInit, needsZero \in BOOLEAN :
          LET dsc == [dsc0 EXCEPT !.lvHasExplicitInit = explicitInit,
                                  !.needsExplicitZeroInit = needsZero]
          IN
          /\ explicitInit = IF dsc0.lvIsStructField THEN dsc0.lvHasExplicitInit
                            ELSE explicitInit /\ NeedsShadowStackHome(dsc0)
          /\ needsZero => NeedsShadowStackHome(dsc0) /\ ~explicitInit /\ ~dsc0.lvIsParam
          /\ varDsc' = dsc
          /\ fieldDscs' = l1.fields
          /\ IF NeedsShadowStackHome(dsc)
             THEN /\ prologInits' = InitShadowStackLocal(l1.inits, curLclNum, dsc)
                  /\ shadowStackLocals' = Append(shadowStackLocals, curLclNum)
             ELSE /\ prologInits' = l1.inits
                  /\ UNCHANGED shadowStackLocals
    /\ curLclNum' = curLclNum + 1
    /\ pcLocals' = "loop"
    /\ UNCHANGED <<lvaCount, paddingLclNum, useDynamicStack, m_lclHeapUsed, ehAnyFunclets>>

\* The padding test with the LCLHEAP flag negated.
NeedsPadding_NoLclHeap(locals, lclHeapUsed, dynamicStack) ==
    Len(locals) = 0 /\ ~lclHeapUsed /\ dynamicStack

\* Line 456.
NeedsPadding(locals, lclHeapUsed, dynamicStack) ==
    Len(locals) = 0 /\ lclHeapUsed /\ dynamicStack

\* Lines 463-467: "p" is [count, locals, inits, padding].
PadShadowFrame(p) ==
    [count |-> p.count + 1,
     locals |-> Append(p.locals, p.count),
     inits |-> initializeLocalInProlog(p.inits, p.count, gtNewZeroConNode("TYP_REF")),
     padding |-> p.count]

\* Lines 456-470: after the loop.
LocalsFinish ==
    /\ pcLocals = "loop"
    /\ curLclNum >= lvaCount
    /\ LET p0 == [count |-> lvaCount, locals |-> shadowStackLocals, inits |-> prologInits,
                  padding |-> paddingLclNum]
           p == IF NeedsPadding(shadowStackLocals, m_lclHeapUsed, useDynamicStack)
                THEN PadShadowFrame(p0) ELSE p0
       IN /\ lvaCount' = p.count
          /\ shadowStackLocals' = p.locals
          /\ prologInits' = p.inits
          /\ paddingLclNum' = p.padding
    /\ pcLocals' = "done"
    /\ UNCHANGED <<curLclNum, varDsc, fieldDscs, useDynamicStack, m_lclHeapUsed, ehAnyFunclets>>

InitLocals ==
    /\ lvaCount \in 0..MaxLocals
    /\ curLclNum = 0
    /\ varDsc = NoDsc
    /\ fieldDscs = <<>>
    /\ shadowStackLocals = <<>>
    /\ prologInits = <<>>
    /\ paddingLclNum = BAD_VAR_NUM
    /\ useDynamicStack \in BOOLEAN
    /\ m_lclHeapUsed \in BOOLEAN
    /\ ehAnyFunclets \in BOOLEAN
    /\ pcLocals = "loop"

LocalsFrame ==
    UNCHANGED <<spillVars, ehVars, lowerVars, rangeVars, structVars, IsReversePInvoke>>

NextLocals ==
    \/ LocalsFetch /\ LocalsFrame
    \/ LocalsBody /\ LocalsFrame
    \/ LocalsFinish /\ LocalsFrame

StartLocals ==
    /\ InitLocals /\ SpillOff /\ EHOff /\ LowerOff /\ RangeOff /\ StructOff
    /\ IsReversePInvoke = FALSE

SpecLocals == StartLocals /\ [][NextLocals]_vars

\* ------------------------------------------------------------------------
\* Properties of lowerLocalsBeforeNodes
\* ------------------------------------------------------------------------
\* C6: each local is added to the shadow stack locals, when its turn in the
\* loop comes, if and only if (it has GC pointers, or is live in or out of a
\* handler, or is untracked in a function with funclets) and it is not a
\* funclet parameter, not an independently promoted struct, not a field of a
\* dependently promoted struct, and is referenced; nothing else changes the
\* list during the loop, so it holds each such local once, in increasing order.
C6_ShadowStackMembership ==
    [][pcLocals' # "done" =>
         IF pcLocals = "body"
            /\ (varDsc.HasGCPtr \/ varDsc.lvLiveInOutOfHndlr
                  \/ (~varDsc.lvTracked /\ ehAnyFunclets))
            /\ ~varDsc.isFuncletParameter
            /\ varDsc.promotionType # "PROMOTION_TYPE_INDEPENDENT"
            /\ ~(varDsc.lvIsStructField
                   /\ varDsc.parentPromotionType = "PROMOTION_TYPE_DEPENDENT")
            /\ varDsc.lvRefCnt # 0
         THEN shadowStackLocals' = Append(shadowStackLocals, curLclNum)
         ELSE shadowStackLocals' = shadowStackLocals]_vars

\* Three locals were classified: the first was left out, the other two were
\* added, in order.
C6_Witness ==
    /\ pcLocals = "done"
    /\ lvaCount = 3
    /\ shadowStackLocals = <<1, 2>>
    /\ varDsc.lvIsStructField = FALSE

NoLocalClassified == \A i \in 1..Len(shadowStackLocals) : shadowStackLocals[i] = paddingLclNum

OnePaddingSlot ==
    /\ paddingLclNum # BAD_VAR_NUM
    /\ shadowStackLocals = <<paddingLclNum>>
    /\ \E i \in 1..Len(prologInits) :
          /\ prologInits[i].lcl = paddingLclNum
          /\ prologInits[i].value.oper = "GT_CNS_INT"
          /\ prologInits[i].value.type = "TYP_REF"
    /\ lvaCount = paddingLclNum + 1

\* C7 as stated: when the loop has put no local on the shadow stack and the
\* function uses LCLHEAP, one zero-initialized padding slot of type ref is on
\* the shadow stack when lowerLocalsBeforeNodes returns.
C7_PaddingWheneverLclHeapUsed ==
    (pcLocals = "done" /\ NoLocalClassified /\ m_lclHeapUsed) => OnePaddingSlot

\* C7: the same, for the targets whose dynamic stack is used for LCLHEAP.
C7_PaddingWhenDynamicStackUsed ==
    (pcLocals = "done" /\ NoLocalClassified /\ m_lclHeapUsed /\ useDynamicStack)
        => OnePaddingSlot

\* Locals were looked at, none was put on the shadow stack, the frame is padded.
C7_Witness ==
    /\ pcLocals = "done"
    /\ m_lclHeapUsed
    /\ useDynamicStack
    /\ lvaCount = 3
    /\ shadowStackLocals = <<2>>
    /\ paddingLclNum = 2

\* ------------------------------------------------------------------------
\* Llvm::Lower, Llvm::initializeLlvmArgInfo, Llvm::lowerBlocks
\* The stores the iteration under way adds to the prolog for its own local.
NewPrologStores ==
    SelectSeq(SubSeq(prologInits', Len(prologInits) + 1, Len(prologInits')),
              LAMBDA st : st.lcl = curLclNum)

\* C17: when a local takes its place on the shadow stack, and it is not marked
\* explicitly initialized: a parameter gets one prolog store of its own
\* incoming value; a local with GC pointers that is no parameter gets one
\* prolog store of zero, whether or not fgVarNeedsExplicitZeroInit answers that
\* it needs one. A local that is marked explicitly initialized gets no store.
C17_PrologInitOfShadowStackLocals ==
    [][(pcLocals = "body" /\ shadowStackLocals' # shadowStackLocals) =>
         LET dsc == varDsc'
         IN /\ (dsc.lvHasExplicitInit) => NewPrologStores = <<>>
            /\ (~dsc.lvHasExplicitInit /\ dsc.lvIsParam) =>
                  /\ Len(NewPrologStores) = 1
                  /\ NewPrologStores[1].value.oper = "GT_LCL_VAR"
                  /\ NewPrologStores[1].value.lcl = curLclNum
            /\ (~dsc.lvHasExplicitInit /\ ~dsc.lvIsParam /\ dsc.HasGCPtr) =>
                  /\ Len(NewPrologStores) = 1
                  /\ NewPrologStores[1].value.oper = "GT_CNS_INT"]_vars

\* A GC local that is no parameter and that fgVarNeedsExplicitZeroInit said
\* needs explicit zeroing has been zeroed in the prolog.
C17_Witness ==
    /\ pcLocals = "loop"
    /\ shadowStackLocals # <<>>
    /\ shadowStackLocals[Len(shadowStackLocals)] = curLclNum - 1
    /\ varDsc.HasGCPtr /\ ~varDsc.lvIsParam /\ ~varDsc.lvHasExplicitInit
    /\ varDsc.needsExplicitZeroInit
    /\ prologInits # <<>>
    /\ prologInits[Len(prologInits)].lcl = curLclNum - 1
    /\ prologInits[Len(prologInits)].value.oper = "GT_CNS_INT"

\* ------------------------------------------------------------------------
\* The locals that are arguments: lvType, lvCorInfoType, lvLlvmArgNum, lvIsParam
\* and what lvaIsImplicitByRefLocal answers for the local.
ArgDsc(type, implicitByRef) ==
    [lvType |-> type, lvCorInfoType |-> "CORINFO_TYPE_UNDEF", lvLlvmArgNum |-> BAD_VAR_NUM,
     lvIsParam |-> TRUE, implicitByRef |-> implicitByRef]

TempDsc ==
    [lvType |-> "TYP_UNDEF", lvCorInfoType |-> "CORINFO_TYPE_UNDEF",
     lvLlvmArgNum |-> BAD_VAR_NUM, lvIsParam |-> FALSE, implicitByRef |-> FALSE]

toCorInfoType(type) ==
    IF type = "TYP_REF" THEN "CORINFO_TYPE_CLASS"
    ELSE IF type = "TYP_BYREF" THEN "CORINFO_TYPE_BYREF"
    ELSE "CORINFO_TYPE_INT"

\* Lines 525-538: "a" is [lva, next].
RECURSIVE AssignLlvmArgNums(_, _, _)
AssignLlvmArgNums(a, num, compArgsCount) ==
    IF num >= compArgsCount THEN a
    ELSE LET lva1 == IF a.lva[num + 1].implicitByRef
                     THEN [a.lva EXCEPT ![num + 1].lvType = "TYP_I_IMPL",
                                        ![num + 1].lvCorInfoType = "CORINFO_TYPE_PTR"]
                     ELSE a.lva
         IN AssignLlvmArgNums([lva |-> [lva1 EXCEPT ![num + 1].lvLlvmArgNum = a.next],
                               next |-> a.next + 1],
                              num + 1, compArgsCount)

\* Lines 484-490 and 495-498: a temporary of type TYP_I_IMPL is grabbed.
GrabPointerTemp(lva) ==
    Append(lva, [TempDsc EXCEPT !.lvType = "TYP_I_IMPL", !.lvCorInfoType = "CORINFO_TYPE_PTR"])

\* Lines 482-541.
LlvmArgInfo(lva, info, funclets, reversePInvoke) ==
    LET lva1 == IF funclets THEN GrabPointerTemp(lva) ELSE lva
        originalShadowStackLclNum == IF funclets THEN Len(lva) ELSE BAD_VAR_NUM
        isManagedAbi == ~reversePInvoke
        shadowStackLclNum == Len(lva1)
        lva2 == GrabPointerTemp(lva1)
        lva3 == IF isManagedAbi
                THEN [lva2 EXCEPT ![shadowStackLclNum + 1].lvLlvmArgNum = 0,
                                  ![shadowStackLclNum + 1].lvIsParam = TRUE]
                ELSE lva2
        next == IF isManagedAbi THEN 1 ELSE 0
        lva4 == IF info.compThisArg # BAD_VAR_NUM
                THEN [lva3 EXCEPT ![info.compThisArg + 1].lvCorInfoType =
                                     toCorInfoType(lva3[info.compThisArg + 1].lvType)]
                ELSE lva3
        lva5 == IF info.compRetBuffArg # BAD_VAR_NUM
                THEN [lva4 EXCEPT ![info.compRetBuffArg + 1].lvType = "TYP_I_IMPL",
                                  ![info.compRetBuffArg + 1].lvCorInfoType = "CORINFO_TYPE_PTR"]
                ELSE lva4
        lva6 == IF info.compTypeCtxtArg # BAD_VAR_NUM
                THEN [lva5 EXCEPT ![info.compTypeCtxtArg + 1].lvCorInfoType = "CORINFO_TYPE_PTR"]
                ELSE lva5
        a == AssignLlvmArgNums([lva |-> lva6, next |-> next], 0, info.compArgsCount)
    IN [lva |-> a.lva,
        info |-> [_originalShadowStackLclNum |-> originalShadowStackLclNum,
                  _shadowStackLclNum |-> shadowStackLclNum,
                  _llvmArgCount |-> a.next]]

\* Line 118.
LowerInitializeLlvmArgInfo ==
    /\ pcLower = "Lower"
    /\ LET r == LlvmArgInfo(lowerLva, compArgInfo, ehAnyFunclets, IsReversePInvoke)
       IN /\ lowerLva' = r.lva
          /\ llvmArgInfo' = r.info
    /\ passesRun' = Append(passesRun, "initializeLlvmArgInfo")
    /\ pcLower' = "lowerBlocks"
    /\ UNCHANGED <<compArgInfo, lowerBBs, curBB, m_lclHeapUsed, IsReversePInvoke, ehAnyFunclets>>

\* Line 119: lowerBlocks is called, its first loop begins with the first block.
LowerCallLowerBlocks ==
    /\ pcLower = "lowerBlocks"
    /\ passesRun' = Append(passesRun, "lowerBlocks")
    /\ curBB' = 1
    /\ pcLower' = "lowerBlocks1"
    /\ UNCHANGED <<lowerLva, llvmArgInfo, compArgInfo, lowerBBs, m_lclHeapUsed,
                   IsReversePInvoke, ehAnyFunclets>>

\* The kinds of throw helper blocks lowering asks fgAddCodeRef for (lines 827,
\* 862, 866).
SpecialCodeKinds == {"SCK_NULL_REF_EXCPN", "SCK_DIV_BY_ZERO", "SCK_OVERFLOW"}

LowerBlock(num, kind, lclHeap) ==
    [bbNum |-> num, kind |-> kind, hasLclHeap |-> lclHeap, bbFlags |-> {},
     lowerRangeCalls |-> 0]

\* fgAddCodeRef: the throw helper block of the kind is created, after the
\* block at "after", unless there is one.
fgAddCodeRef(bbs, kind, after) ==
    IF \E i \in 1..Len(bbs) : bbs[i].kind = kind THEN bbs
    ELSE SubSeq(bbs, 1, after) \o <<LowerBlock(Len(bbs) + 1, kind, FALSE)>>
            \o SubSeq(bbs, after + 1, Len(bbs))

\* Lines 566-580: the nodes of the block are lowered.
lowerRange(bbs, num) ==
    [i \in 1..Len(bbs) |->
        IF bbs[i].bbNum = num THEN [bbs[i] EXCEPT !.lowerRangeCalls = @ + 1] ELSE bbs[i]]

\* The flags of the block left as they are.
SetBlockFlags_Unchanged(bbs, num, flags) == bbs

SetBlockFlags(bbs, num, flags) ==
    [i \in 1..Len(bbs) |-> IF bbs[i].bbNum = num THEN [bbs[i] EXCEPT !.bbFlags = flags]
                           ELSE bbs[i]]

LowerPosOf(bbs, num) == CHOOSE i \in 1..Len(bbs) : bbs[i].bbNum = num

\* Lines 545-549: one iteration of the first loop. Lowering the nodes of a
\* block may ask for a throw helper block, and sets m_lclHeapUsed at a LCLHEAP
\* (line 908).
LowerBlocksFirstLoop ==
    /\ pcLower = "lowerBlocks1"
    /\ LET block == lowerBBs[curBB]
       IN \E kind \in SpecialCodeKinds \cup {"none"}, after \in 1..Len(lowerBBs) :
             LET bbs1 == IF kind = "none" \/ block.kind # "user" THEN lowerBBs
                         ELSE fgAddCodeRef(lowerBBs, kind, after)
                 bbs2 == lowerRange(bbs1, block.bbNum)
                 bbs3 == SetBlockFlags(bbs2, block.bbNum, block.bbFlags \cup {"BBF_MARKED"})
                 next == LowerPosOf(bbs3, block.bbNum) + 1
             IN /\ (kind = "none" \/ block.kind # "user") => after = 1
                /\ lowerBBs' = bbs3
                /\ m_lclHeapUsed' = (m_lclHeapUsed \/ block.hasLclHeap)
                /\ IF next <= Len(bbs3)
                   THEN curBB' = next /\ pcLower' = "lowerBlocks1"
                   ELSE curBB' = 1 /\ pcLower' = "lowerBlocks2"
    /\ UNCHANGED <<passesRun, lowerLva, llvmArgInfo, compArgInfo, IsReversePInvoke,
                   ehAnyFunclets>>

\* Lines 555-563: one iteration of the second loop.
LowerBlocksSecondLoop ==
    /\ pcLower = "lowerBlocks2"
    /\ LET block == lowerBBs[curBB]
           bbs1 == IF "BBF_MARKED" \notin block.bbFlags
                   THEN lowerRange(lowerBBs, block.bbNum)
                   ELSE lowerBBs
       IN lowerBBs' = SetBlockFlags(bbs1, block.bbNum, block.bbFlags \ {"BBF_MARKED"})
    /\ IF curBB + 1 <= Len(lowerBBs)
       THEN curBB' = curBB + 1 /\ pcLower' = "lowerBlocks2"
       ELSE curBB' = 0 /\ pcLower' = "lowerLocalsAfterNodes"
    /\ UNCHANGED <<passesRun, lowerLva, llvmArgInfo, compArgInfo, m_lclHeapUsed,
                   IsReversePInvoke, ehAnyFunclets>>

\* Line 121.
LowerLocalsAfterNodes ==
    /\ pcLower = "lowerLocalsAfterNodes"
    /\ passesRun' = Append(passesRun, "lowerLocalsAfterNodes")
    /\ pcLower' = "done"
    /\ UNCHANGED <<lowerLva, llvmArgInfo, compArgInfo, lowerBBs, curBB, m_lclHeapUsed,
                   IsReversePInvoke, ehAnyFunclets>>

\* The arguments of the function: "this" can only be the first one; there is
\* at most one return buffer and one generic context.
ArgKinds == {"this", "retBuf", "typeCtxt", "implicitByRef", "int"}

ArgKindLists ==
    { ks \in UNION { [1..n -> ArgKinds] : n \in 0..MaxArgs } :
        /\ \A i \in DOMAIN ks : ks[i] = "this" => i = 1
        /\ \A i, j \in DOMAIN ks :
              (i # j /\ ks[i] = ks[j]) => ks[i] \in {"implicitByRef", "int"} }

ArgOfKind(kind) ==
    IF kind = "this" THEN ArgDsc("TYP_REF", FALSE)
    ELSE IF kind = "retBuf" THEN ArgDsc("TYP_BYREF", FALSE)
    ELSE IF kind = "typeCtxt" THEN ArgDsc("TYP_I_IMPL", FALSE)
    ELSE IF kind = "implicitByRef" THEN ArgDsc("TYP_BYREF", TRUE)
    ELSE ArgDsc("TYP_INT", FALSE)

ArgNumOfKind(ks, kind) ==
    IF \E i \in DOMAIN ks : ks[i] = kind
    THEN (CHOOSE i \in DOMAIN ks : ks[i] = kind) - 1
    ELSE BAD_VAR_NUM

InitLower ==
    /\ \E ks \in ArgKindLists :
          /\ lowerLva = [i \in DOMAIN ks |-> ArgOfKind(ks[i])]
          /\ compArgInfo = [compArgsCount |-> Len(ks),
                            compThisArg |-> ArgNumOfKind(ks, "this"),
                            compRetBuffArg |-> ArgNumOfKind(ks, "retBuf"),
                            compTypeCtxtArg |-> ArgNumOfKind(ks, "typeCtxt")]
    /\ \E n \in 1..MaxLowerBBs : \E heap \in [1..n -> BOOLEAN] :
          lowerBBs = [i \in 1..n |-> LowerBlock(i, "user", heap[i])]
    /\ llvmArgInfo = [_llvmArgCount |-> 0]
    /\ passesRun = <<>>
    /\ curBB = 0
    /\ pcLower = "Lower"
    /\ m_lclHeapUsed = FALSE
    /\ IsReversePInvoke \in BOOLEAN
    /\ ehAnyFunclets \in BOOLEAN

LowerFrame == UNCHANGED <<spillVars, ehVars, localsVars, rangeVars, structVars>>

NextLower ==
    \/ LowerInitializeLlvmArgInfo /\ LowerFrame
    \/ LowerCallLowerBlocks /\ LowerFrame
    \/ LowerBlocksFirstLoop /\ LowerFrame
    \/ LowerBlocksSecondLoop /\ LowerFrame
    \/ LowerLocalsAfterNodes /\ LowerFrame

StartLower == InitLower /\ SpillOff /\ EHOff /\ LocalsOff /\ RangeOff /\ StructOff

SpecLower == StartLower /\ [][NextLower]_vars

\* ------------------------------------------------------------------------
\* Properties of Lower
\* ------------------------------------------------------------------------
CalledInOrder(first, second, third) ==
    \E i, j, k \in 1..Len(passesRun) :
        /\ i < j /\ j < k
        /\ passesRun[i] = first /\ passesRun[j] = second /\ passesRun[k] = third

\* C5: once Lower has called lowerBlocks, it has called the spiller and then
\* lowerLocalsBeforeNodes (which ends with assignShadowStackOffsets) before it.
C5_SpillerThenLocalsThenBlocks ==
    (\E k \in 1..Len(passesRun) : passesRun[k] = "lowerBlocks")
        => CalledInOrder("lowerSpillTempsLiveAcrossSafePoints", "lowerLocalsBeforeNodes",
                         "lowerBlocks")

\* C14: lowerBlocks is two loops over the block list. When the second one has
\* ended every block, the throw helper blocks created while lowering included,
\* has been given to lowerRange once and none has BBF_MARKED set; in the second
\* loop the blocks behind the walk are in that state already, and a block ahead
\* of the walk is marked exactly if it has been lowered.
C14_EveryBlockLoweredOnce ==
    /\ pcLower \in {"lowerLocalsAfterNodes", "done"} =>
          \A i \in DOMAIN lowerBBs :
             /\ lowerBBs[i].lowerRangeCalls = 1
             /\ "BBF_MARKED" \notin lowerBBs[i].bbFlags
    /\ pcLower = "lowerBlocks2" =>
          \A i \in DOMAIN lowerBBs :
             IF i < curBB
             THEN /\ lowerBBs[i].lowerRangeCalls = 1
                  /\ "BBF_MARKED" \notin lowerBBs[i].bbFlags
             ELSE /\ lowerBBs[i].lowerRangeCalls <= 1
                  /\ "BBF_MARKED" \in lowerBBs[i].bbFlags <=> lowerBBs[i].lowerRangeCalls = 1

\* lowerBlocks has returned for a function that got a throw helper block put
\* before one of its own blocks.
C14_Witness ==
    /\ pcLower = "lowerLocalsAfterNodes"
    /\ \E i, j \in DOMAIN lowerBBs :
          i < j /\ lowerBBs[i].kind # "user" /\ lowerBBs[j].kind = "user"

\* ------------------------------------------------------------------------
\* lowerRange, lowerNode, lowerCall and what lowerCall calls
\* (lines 566-635, 731-812, 823-829, 911-1067, 1203-1237)
\*
\* The state the functions work on is passed along as a record c:
\*   range     the LIR range of the current block (CurrentRange())
\*   block     the current block (CurrentBlock())
\*   tab       the EH table
\*   lvaCount, nextId            the next local and the next node identity
\*   codeRefs  the throw helper blocks asked of fgAddCodeRef
\*   fatal     IMPL_LIMITATION was reached
\* The signature types (lowerCallReturn, the AbiInfo of lowerCallToShadowStack)
\* are not part of the state; no argument of the calls here is a struct, so
\* lowerCallToShadowStack changes no node.
\* ------------------------------------------------------------------------

LirNode(id, oper) ==
    [id |-> id, oper |-> oper, lclNum |-> BAD_VAR_NUM, helper |-> "CORINFO_HELP_UNDEF",
     gtCallType |-> "CT_NONE", gtFlags |-> {}, gtArgs |-> <<>>, ops |-> <<>>,
     gtCallAddr |-> 0, gtControlExpr |-> 0, gtEntryPoint |-> "none", lowered |-> 0]

\* A CallArg: its well-known kind, its node, and its place in the original
\* argument list (0 for an argument lowering adds).
CallArg(wellKnown, node, sigIndex) ==
    [wellKnown |-> wellKnown, node |-> node, sigIndex |-> sigIndex]

gtNewHelperCallNode(id, helper, argNodes) ==
    [LirNode(id, "GT_CALL") EXCEPT
        !.gtCallType = "CT_HELPER",
        !.helper = helper,
        !.gtArgs = [i \in DOMAIN argNodes |-> CallArg("None", argNodes[i], 0)]]

gtNewLclVarCommon(id, oper, lclNum) == [LirNode(id, oper) EXCEPT !.lclNum = lclNum]

gtNewOperNode(id, oper, operands) == [LirNode(id, oper) EXCEPT !.ops = operands]

IsHelperCall(node, helper) ==
    node.oper = "GT_CALL" /\ node.gtCallType = "CT_HELPER" /\ node.helper = helper

\* The helpers that always throw, among those of this model.
fgIsThrow(node) ==
    \E h \in {"CORINFO_HELP_RETHROW", "CORINFO_HELP_OVERFLOW", "CORINFO_HELP_THROW"} :
        IsHelperCall(node, h)

IsNoReturn(node) == "GTF_CALL_M_DOES_NOT_RETURN" \in node.gtFlags

NeedsNullCheck(node) == "GTF_CALL_NULLCHECK" \in node.gtFlags

IsVirtualStub(node) == "GTF_CALL_VIRT_STUB" \in node.gtFlags

IsDelegateInvoke(node) == "GTF_CALL_M_DELEGATE_INV" \in node.gtFlags

IsUnmanaged(node) == "GTF_CALL_UNMANAGED" \in node.gtFlags

IsSuppressGCTransition(node) == "GTF_CALL_M_SUPPRESS_GC_TRANSITION" \in node.gtFlags

\* The address of a local is never null; any other node may be.
fgAddrCouldBeNull(node) == node.oper # "GT_LCL_ADDR"

\* The region has a catch handler.
HasCatchHandler(dsc) == dsc.ebdHandlerType = "EH_HANDLER_CATCH"

ehGetDsc(tab, regionIndex) == tab[regionIndex + 1]

\* The nodes a node uses.
Operands(node) ==
    ({ node.gtArgs[i].node : i \in DOMAIN node.gtArgs }
        \cup { node.ops[i] : i \in DOMAIN node.ops }
        \cup {node.gtCallAddr, node.gtControlExpr}) \ {0}

ReplaceNode(range, node) ==
    [i \in 1..Len(range) |-> IF range[i].id = node.id THEN node ELSE range[i]]

AddFlags(range, id, flags) ==
    [i \in 1..Len(range) |->
        IF range[i].id = id THEN [range[i] EXCEPT !.gtFlags = @ \cup flags] ELSE range[i]]

RemoveFlags(range, id, flags) ==
    [i \in 1..Len(range) |->
        IF range[i].id = id THEN [range[i] EXCEPT !.gtFlags = @ \ flags] ELSE range[i]]

\* LIR::Range::Remove(node).
RemoveNode(range, id) == SelectSeq(range, LAMBDA n : n.id # id)

\* LIR::Range::Remove(node, markOperandsUnused = true).
RemoveAndMarkOperandsUnused(range, id) ==
    LET operands == Operands(NodeOf(range, id))
        rest == RemoveNode(range, id)
    IN [i \in 1..Len(rest) |->
          IF rest[i].id \in operands
          THEN [rest[i] EXCEPT !.gtFlags = @ \cup {"GTF_UNUSED_VALUE"}]
          ELSE rest[i]]

InsertAllBefore(range, id, nodes) ==
    LET pos == PosOf(range, id)
    IN SubSeq(range, 1, pos - 1) \o nodes \o SubSeq(range, pos, Len(range))

InsertAllAfter(range, id, nodes) ==
    LET pos == PosOf(range, id)
    IN SubSeq(range, 1, pos) \o nodes \o SubSeq(range, pos + 1, Len(range))

\* Lines 780-783: the nodes after the call are removed, last first.
RECURSIVE RemoveAllAfter(_, _)
RemoveAllAfter(range, id) ==
    IF range[Len(range)].id = id THEN range
    ELSE RemoveAllAfter(RemoveAndMarkOperandsUnused(range, range[Len(range)].id), id)

fgConvertBBToThrowBB(block) == [block EXCEPT !.bbJumpKind = "BBJ_THROW"]

ArgIndex(call, wellKnown) ==
    CHOOSE k \in DOMAIN call.gtArgs : call.gtArgs[k].wellKnown = wellKnown

ArgNode(c, callId, k) == NodeOf(c.range, NodeOf(c.range, callId).gtArgs[k].node)

\* LIR::Use::ReplaceWithLclVar on argument k of the call: the value is stored
\* to a new local after its definition and the argument becomes a load of it.
ReplaceWithLclVar(c, callId, k) ==
    LET call == NodeOf(c.range, callId)
        def == call.gtArgs[k].node
        store == [LirNode(c.nextId, "GT_STORE_LCL_VAR") EXCEPT
                    !.lclNum = c.lvaCount, !.ops = <<def>>]
        load == gtNewLclVarCommon(c.nextId + 1, "GT_LCL_VAR", c.lvaCount)
        inserted == InsertAllAfter(c.range, def, <<store, load>>)
    IN [c EXCEPT !.range = ReplaceNode(inserted, [call EXCEPT !.gtArgs[k].node = load.id]),
                 !.lvaCount = @ + 1,
                 !.nextId = @ + 2]

\* Lines 1203-1212. The local is the lclNum of the argument's node afterwards.
representAsLclVar(c, callId, k) ==
    IF ArgNode(c, callId, k).oper = "GT_LCL_VAR" THEN c ELSE ReplaceWithLclVar(c, callId, k)

\* Lines 1234-1237.
getCatchArgOffset == 0

\* Lines 1214-1232: the node returned.
ShadowStackAddrNode(c, offset) == IF offset = 0 THEN c.nextId ELSE c.nextId + 2

insertShadowStackAddr(c, insertBefore, offset) ==
    LET shadowStackLcl == gtNewLclVarCommon(c.nextId, "GT_LCL_VAR", c.shadowStackLclNum)
        offsetNode == LirNode(c.nextId + 1, "GT_CNS_INT")
        addNode == gtNewOperNode(c.nextId + 2, "GT_ADD", <<c.nextId, c.nextId + 1>>)
    IN IF offset = 0
       THEN [c EXCEPT !.range = InsertAllBefore(@, insertBefore, <<shadowStackLcl>>),
                      !.nextId = @ + 1]
       ELSE [c EXCEPT !.range = InsertAllBefore(@, insertBefore,
                                                <<shadowStackLcl, offsetNode, addNode>>),
                      !.nextId = @ + 3]

ThisArgIndex(c, callId) == ArgIndex(NodeOf(c.range, callId), "ThisPointer")

\* Lines 810-811: the address of the exception object becomes the first
\* argument.
AddExceptionArg(c, callId) ==
    LET c1 == insertShadowStackAddr(c, callId, getCatchArgOffset)
    IN [c1 EXCEPT !.range = ReplaceNode(@,
            [NodeOf(c1.range, callId) EXCEPT
                !.gtArgs = <<CallArg("None", ShadowStackAddrNode(c, getCatchArgOffset), 0)>>
                              \o @])]

\* Lowering goes on whatever the handler of the block is.
lowerRethrow_NoLimitation(c, callId) == AddExceptionArg(c, callId)

\* Lines 792-812.
lowerRethrow(c, callId) ==
    IF ~HasCatchHandler(ehGetDsc(c.tab, getHndIndex(c.block)))
    THEN [c EXCEPT !.fatal = TRUE]
    ELSE AddExceptionArg(c, callId)

\* Lines 823-829.
lowerIndir(c, id) ==
    IF "GTF_IND_NONFAULTING" \notin NodeOf(c.range, id).gtFlags
    THEN [c EXCEPT !.codeRefs = @ \cup {"SCK_NULL_REF_EXCPN"}]
    ELSE c

\* Lines 637-650, for a local that is not a field of a dependently promoted
\* struct and is not stored to: the node is left as it is.
lowerLocal(c, id) ==
    [c EXCEPT !.range = ReplaceNode(@, [NodeOf(c.range, id) EXCEPT !.lowered = @ + 1])]

\* Lines 967-974, after representAsLclVar: the null check of a load of the
\* local is inserted before the call and lowered.
InsertNullCheck(c, callId) ==
    lowerIndir(
        [c EXCEPT
            !.range = InsertAllBefore(@, callId,
                <<gtNewLclVarCommon(c.nextId, "GT_LCL_VAR",
                                    ArgNode(c, callId, ThisArgIndex(c, callId)).lclNum),
                  gtNewOperNode(c.nextId + 1, "GT_NULLCHECK", <<c.nextId>>)>>),
            !.nextId = @ + 2],
        c.nextId + 1)

\* Line 977.
ClearNullCheck(c, callId) ==
    [c EXCEPT !.range = RemoveFlags(@, callId, {"GTF_CALL_NULLCHECK"})]

\* Lines 960-978.
insertNullCheckForCall(c, callId) ==
    ClearNullCheck(
        IF fgAddrCouldBeNull(ArgNode(c, callId, ThisArgIndex(c, callId)))
        THEN InsertNullCheck(representAsLclVar(c, callId, ThisArgIndex(c, callId)), callId)
        ELSE c,
        callId)

\* Lines 991-1004: the "this" of the call becomes the target of the delegate.
DelegateTargetThis(c, callId) ==
    LET n == c.nextId
        k == ThisArgIndex(c, callId)
        inserted == InsertAllBefore(c.range, callId,
                        <<LirNode(n, "GT_CNS_INT"),
                          gtNewOperNode(n + 1, "GT_ADD",
                                        <<NodeOf(c.range, callId).gtArgs[k].node, n>>),
                          gtNewOperNode(n + 2, "GT_IND", <<n + 1>>)>>)
    IN lowerIndir(
          [c EXCEPT !.range = ReplaceNode(inserted,
                                [NodeOf(c.range, callId) EXCEPT !.gtArgs[k].node = n + 2]),
                    !.nextId = n + 3],
          n + 2)

\* Lines 1006-1015: the control expression of the call.
DelegateCallTarget(c, callId, delegateThisLclNum) ==
    LET n == c.nextId
        inserted == InsertAllBefore(c.range, callId,
                        <<gtNewLclVarCommon(n, "GT_LCL_VAR", delegateThisLclNum),
                          LirNode(n + 1, "GT_CNS_INT"),
                          gtNewOperNode(n + 2, "GT_ADD", <<n, n + 1>>),
                          [gtNewOperNode(n + 3, "GT_IND", <<n + 2>>) EXCEPT
                              !.gtFlags = {"GTF_IND_NONFAULTING", "GTF_ORDER_SIDEEFF"}]>>)
    IN [c EXCEPT !.range = ReplaceNode(inserted,
                                [NodeOf(c.range, callId) EXCEPT !.gtControlExpr = n + 3]),
                 !.nextId = n + 4]

\* Lines 989-1015, after representAsLclVar.
DelegateInvoke(c, callId) ==
    DelegateCallTarget(DelegateTargetThis(c, callId), callId,
                       ArgNode(c, callId, ThisArgIndex(c, callId)).lclNum)

\* Lines 980-1016.
lowerDelegateInvoke(c, callId) ==
    DelegateInvoke(representAsLclVar(c, callId, ThisArgIndex(c, callId)), callId)

\* Lines 923-931: the resolver call on a load of "this" and on the cell, which
\* leaves the arguments of the call.
InsertStubCall(c, callId) ==
    LET n == c.nextId
        call == NodeOf(c.range, callId)
        cellArg == call.gtArgs[ArgIndex(call, "VirtualStubCell")]
        inserted == InsertAllBefore(c.range, callId,
                        <<gtNewLclVarCommon(n, "GT_LCL_VAR",
                                            ArgNode(c, callId, ThisArgIndex(c, callId)).lclNum),
                          gtNewHelperCallNode(n + 1,
                                "CORINFO_HELP_LLVM_RESOLVE_INTERFACE_CALL_TARGET",
                                <<n, cellArg.node>>)>>)
    IN [c EXCEPT
          !.range = ReplaceNode(inserted,
                        [call EXCEPT !.gtArgs = SelectSeq(@,
                                        LAMBDA a : a.wellKnown # "VirtualStubCell")]),
          !.nextId = n + 2]

\* Lines 935-946: the address of an indirect call is no longer needed.
DiscardCallAddr(c, callId) ==
    LET call == NodeOf(c.range, callId)
    IN IF call.gtCallType = "CT_INDIRECT"
       THEN IF NodeOf(c.range, call.gtCallAddr).oper = "GT_LCL_VAR"
            THEN [c EXCEPT !.range = RemoveNode(@, call.gtCallAddr)]
            ELSE [c EXCEPT !.range = AddFlags(@, call.gtCallAddr, {"GTF_UNUSED_VALUE"})]
       ELSE c

\* Lines 949-954: the call is retargeted.
RetargetCall(c, callId, stubCallId) ==
    [c EXCEPT !.range = ReplaceNode(@,
        [NodeOf(c.range, callId) EXCEPT
            !.gtCallType = "CT_INDIRECT",
            !.gtCallAddr = stubCallId,
            !.gtFlags = @ \ {"GTF_CALL_VIRT_STUB", "GTF_CALL_M_VIRTSTUB_REL_INDIRECT"}])]

RECURSIVE lowerCall(_, _)

\* The resolver call is left as it was created.
ResolveThroughStub_StubNotLowered(c, callId) ==
    RetargetCall(DiscardCallAddr(InsertStubCall(c, callId), callId), callId, c.nextId + 1)

\* Lines 923-957, after representAsLclVar.
ResolveThroughStub(c, callId) ==
    lowerCall(
        RetargetCall(DiscardCallAddr(InsertStubCall(c, callId), callId), callId, c.nextId + 1),
        c.nextId + 1)

\* Lines 911-958.
lowerVirtualStubCall(c, callId) ==
    ResolveThroughStub(representAsLclVar(c, callId, ThisArgIndex(c, callId)), callId)

\* Lines 1022-1045: a direct call goes through an external method accessor.
SetExternalMethodAccessor(c, callId) ==
    IF NodeOf(c.range, callId).gtCallType # "CT_INDIRECT"
    THEN [c EXCEPT !.range = ReplaceNode(@,
            [NodeOf(c.range, callId) EXCEPT !.gtEntryPoint = "ExternalMethodAccessor"])]
    ELSE c

\* The helper call on the address of the inlined PInvoke frame.
PInvokeHelper(c, helper) ==
    <<gtNewLclVarCommon(c.nextId, "GT_LCL_ADDR", c.lvaInlinedPInvokeFrameVar),
      gtNewHelperCallNode(c.nextId + 1, helper, <<c.nextId>>)>>

\* Lines 1054-1059: the enter helper, before the call, lowered here.
InsertPInvokeBegin(c, callId) ==
    lowerCall(
        lowerLocal(
            [c EXCEPT !.range = InsertAllBefore(@, callId,
                                    PInvokeHelper(c, "CORINFO_HELP_JIT_PINVOKE_BEGIN")),
                      !.nextId = @ + 2],
            c.nextId),
        c.nextId + 1)

\* The exit helper is lowered here, as the enter helper is.
InsertPInvokeEnd_Lowered(c, callId) ==
    lowerCall(
        lowerLocal(
            [c EXCEPT !.range = InsertAllAfter(@, callId,
                                    PInvokeHelper(c, "CORINFO_HELP_JIT_PINVOKE_END")),
                      !.nextId = @ + 2],
            c.nextId),
        c.nextId + 1)

\* Lines 1061-1065: the exit helper, after the call, left to the loop of
\* lowerRange.
InsertPInvokeEnd(c, callId) ==
    [c EXCEPT !.range = InsertAllAfter(@, callId,
                            PInvokeHelper(c, "CORINFO_HELP_JIT_PINVOKE_END")),
              !.nextId = @ + 2]

\* Lines 1047-1066.
InsertGCTransitions(c, callId) ==
    IF ~IsSuppressGCTransition(NodeOf(c.range, callId))
    THEN InsertPInvokeEnd(InsertPInvokeBegin(c, callId), callId)
    ELSE c

\* Lines 1018-1067.
lowerUnmanagedCall(c, callId) ==
    InsertGCTransitions(SetExternalMethodAccessor(c, callId), callId)

\* Lines 741-747: the argument of the overflow helper is removed.
RemoveOverflowArg(c, callId) ==
    LET call == NodeOf(c.range, callId)
    IN [c EXCEPT !.range = ReplaceNode(RemoveNode(@, call.gtArgs[1].node),
                                       [call EXCEPT !.gtArgs = Tail(@)])]

\* Line 731: lowerCall is entered for the call.
EnterLowerCall(c, callId) ==
    [c EXCEPT !.range = ReplaceNode(@, [NodeOf(c.range, callId) EXCEPT !.lowered = @ + 1])]

\* Lines 736-747.
LowerHelperArgs(c, callId) ==
    LET call == NodeOf(c.range, callId)
    IN IF IsHelperCall(call, "CORINFO_HELP_RETHROW") THEN lowerRethrow(c, callId)
       ELSE IF IsHelperCall(call, "CORINFO_HELP_OVERFLOW") /\ call.gtArgs # <<>>
            THEN RemoveOverflowArg(c, callId)
            ELSE c

\* Lines 752-757.
LowerNullCheck(c, callId) ==
    IF NeedsNullCheck(NodeOf(c.range, callId)) \/ IsVirtualStub(NodeOf(c.range, callId))
    THEN insertNullCheckForCall(c, callId)
    ELSE c

\* Lines 759-766.
LowerCallTarget(c, callId) ==
    IF IsVirtualStub(NodeOf(c.range, callId)) THEN lowerVirtualStubCall(c, callId)
    ELSE IF IsDelegateInvoke(NodeOf(c.range, callId)) THEN lowerDelegateInvoke(c, callId)
    ELSE c

\* Lines 771-774.
LowerUnmanaged(c, callId) ==
    IF IsUnmanaged(NodeOf(c.range, callId)) THEN lowerUnmanagedCall(c, callId) ELSE c

\* Only after a throw helper is the rest of the block removed.
RemoveDeadCodeAfter_ThrowHelpersOnly(c, callId) ==
    IF fgIsThrow(NodeOf(c.range, callId))
    THEN [c EXCEPT !.range = RemoveAllAfter(@, callId),
                   !.block = IF @.bbJumpKind # "BBJ_THROW"
                             THEN fgConvertBBToThrowBB(@) ELSE @]
    ELSE c

\* Lines 776-789.
RemoveDeadCodeAfter(c, callId) ==
    IF fgIsThrow(NodeOf(c.range, callId)) \/ IsNoReturn(NodeOf(c.range, callId))
    THEN [c EXCEPT !.range = RemoveAllAfter(@, callId),
                   !.block = IF @.bbJumpKind # "BBJ_THROW"
                             THEN fgConvertBBToThrowBB(@) ELSE @]
    ELSE c

\* Lines 749-789: what follows the helper arguments; nothing does after
\* IMPL_LIMITATION.
LowerCallRest(c, callId) ==
    IF c.fatal THEN c
    ELSE RemoveDeadCodeAfter(
            LowerUnmanaged(LowerCallTarget(LowerNullCheck(c, callId), callId), callId),
            callId)

\* Lines 731-790.
lowerCall(c, callId) ==
    LowerCallRest(LowerHelperArgs(EnterLowerCall(c, callId), callId), callId)

\* Lines 582-635, for the opers of this model; a GT_RETURN here is of TYP_VOID.
lowerNode(c, id) ==
    LET oper == NodeOf(c.range, id).oper
    IN CASE oper \in {"GT_LCL_VAR", "GT_LCL_FLD", "GT_LCL_ADDR",
                      "GT_STORE_LCL_VAR", "GT_STORE_LCL_FLD"} -> lowerLocal(c, id)
         [] oper = "GT_CALL" -> lowerCall(c, id)
         [] oper \in {"GT_IND", "GT_BLK", "GT_NULLCHECK", "GT_STOREIND"} -> lowerIndir(c, id)
         [] OTHER -> c

\* ---- the input: a block of one or two calls with their operands

MaxCalls == 2

HandlerTypes == {"EH_HANDLER_CATCH", "EH_HANDLER_FILTER", "EH_HANDLER_FINALLY"}

CallShape(helper, callType, flags, argKinds, thisOper, addrOper) ==
    [helper |-> helper, gtCallType |-> callType, gtFlags |-> flags,
     argKinds |-> argKinds, thisOper |-> thisOper, addrOper |-> addrOper]

HelperCallShapes ==
    { CallShape("CORINFO_HELP_RETHROW", "CT_HELPER", {}, <<>>, "none", "none"),
      CallShape("CORINFO_HELP_OVERFLOW", "CT_HELPER", {}, <<>>, "none", "none"),
      CallShape("CORINFO_HELP_OVERFLOW", "CT_HELPER", {}, <<"None">>, "none", "none"),
      CallShape("CORINFO_HELP_THROW", "CT_HELPER", {}, <<"None">>, "none", "none") }

NoReturnFlags == { {}, {"GTF_CALL_M_DOES_NOT_RETURN"} }

CallTargets == { <<"CT_USER_FUNC", "none">>, <<"CT_INDIRECT", "GT_LCL_VAR">>,
                 <<"CT_INDIRECT", "GT_CNS_INT">> }

ThisOpers == {"GT_LCL_VAR", "GT_LCL_ADDR"}

VirtualStubCallShapes ==
    { CallShape("CORINFO_HELP_UNDEF", target[1], {"GTF_CALL_VIRT_STUB"} \cup noReturn,
                argKinds, thisOper, target[2]) :
        target \in CallTargets, noReturn \in NoReturnFlags, thisOper \in ThisOpers,
        argKinds \in { <<"ThisPointer", "VirtualStubCell">>,
                       <<"VirtualStubCell", "ThisPointer", "None">>,
                       <<"ThisPointer", "None", "VirtualStubCell">> } }

DelegateCallShapes ==
    { CallShape("CORINFO_HELP_UNDEF", "CT_USER_FUNC", {"GTF_CALL_M_DELEGATE_INV"},
                argKinds, thisOper, "none") :
        thisOper \in ThisOpers,
        argKinds \in { <<"ThisPointer">>, <<"ThisPointer", "None">> } }

UnmanagedCallShapes ==
    { CallShape("CORINFO_HELP_UNDEF", target[1],
                {"GTF_CALL_UNMANAGED"} \cup noReturn \cup suppress, argKinds, "none",
                target[2]) :
        target \in { <<"CT_USER_FUNC", "none">>, <<"CT_INDIRECT", "GT_LCL_VAR">> },
        noReturn \in NoReturnFlags,
        suppress \in { {}, {"GTF_CALL_M_SUPPRESS_GC_TRANSITION"} },
        argKinds \in { <<>>, <<"None">> } }

UserCallShapes ==
    { CallShape("CORINFO_HELP_UNDEF", "CT_USER_FUNC", nullCheck \cup noReturn,
                <<"ThisPointer">>, thisOper, "none") :
        nullCheck \in { {}, {"GTF_CALL_NULLCHECK"} },
        noReturn \in NoReturnFlags, thisOper \in ThisOpers }

CallShapes ==
    HelperCallShapes \cup VirtualStubCallShapes \cup DelegateCallShapes
        \cup UnmanagedCallShapes \cup UserCallShapes

\* The nodes of one call, operands first: its arguments, its address, itself.
ArgOper(shape, k) ==
    IF shape.argKinds[k] = "ThisPointer" THEN shape.thisOper ELSE "GT_CNS_INT"

CallGroup(shape, firstId, lclNum) ==
    LET nArgs == Len(shape.argKinds)
        hasAddr == shape.addrOper # "none"
        callId == firstId + nArgs + (IF hasAddr THEN 1 ELSE 0)
        argNodes == [k \in 1..nArgs |->
                        gtNewLclVarCommon(firstId + k - 1, ArgOper(shape, k),
                            IF ArgOper(shape, k) = "GT_CNS_INT" THEN BAD_VAR_NUM ELSE lclNum)]
        addrNodes == IF hasAddr
                     THEN <<gtNewLclVarCommon(firstId + nArgs, shape.addrOper,
                                IF shape.addrOper = "GT_CNS_INT" THEN BAD_VAR_NUM ELSE lclNum)>>
                     ELSE <<>>
        call == [LirNode(callId, "GT_CALL") EXCEPT
                    !.helper = shape.helper,
                    !.gtCallType = shape.gtCallType,
                    !.gtFlags = shape.gtFlags,
                    !.gtArgs = [k \in 1..nArgs |->
                                    CallArg(shape.argKinds[k], firstId + k - 1, k)],
                    !.gtCallAddr = IF hasAddr THEN firstId + nArgs ELSE 0]
    IN argNodes \o addrNodes \o <<call>>

RECURSIVE CallGroups(_, _, _)
CallGroups(shapes, firstId, lclNum) ==
    IF shapes = <<>> THEN <<>>
    ELSE LET group == CallGroup(Head(shapes), firstId, lclNum)
         IN group \o CallGroups(Tail(shapes), firstId + Len(group), lclNum)

HasRethrow(shapes) ==
    \E i \in DOMAIN shapes : shapes[i].helper = "CORINFO_HELP_RETHROW"

\* The block ends in a void return when it is a return block.
BlockEnd(jumpKind, id) ==
    IF jumpKind = "BBJ_RETURN" THEN <<LirNode(id, "GT_RETURN")>> ELSE <<>>

\* The locals: V00 the shadow stack, V01 the inlined PInvoke frame, V02 a
\* local of the user's. A block with a rethrow is in a handler region.
InitRange ==
    /\ \E n \in 1..MaxCalls : \E shapes \in [1..n -> CallShapes] :
       \E jumpKind \in {"BBJ_NONE", "BBJ_RETURN", "BBJ_THROW"} :
          LET calls == CallGroups(shapes, 1, 2)
              range == calls \o BlockEnd(jumpKind, Len(calls) + 1)
          IN /\ m_currentRange = range
             /\ rangeNode = range[1].id
             /\ rangeState = [lvaCount |-> 3, nextId |-> Len(range) + 1, codeRefs |-> {},
                              shadowStackLclNum |-> 0, lvaInlinedPInvokeFrameVar |-> 1]
             /\ IF HasRethrow(shapes)
                THEN /\ compHndBBtab \in
                            { [i \in 1..MaxRegions |-> [ebdHandlerType |-> types[i]]] :
                                types \in [1..MaxRegions -> HandlerTypes] }
                     /\ \E hndIndex \in 1..MaxRegions :
                            m_currentBlock = [bbJumpKind |-> jumpKind, bbHndIndex |-> hndIndex]
                ELSE /\ compHndBBtab = <<>>
                     /\ m_currentBlock = [bbJumpKind |-> jumpKind, bbHndIndex |-> 0]
    /\ pcRange = "lowerRange"
    /\ fgBlocks = <<>>
    /\ fgFirstBBScratch = 0
    /\ nextBBNum = 1
    /\ pcEH = "off"

RangeCtx ==
    [range |-> m_currentRange, block |-> m_currentBlock, tab |-> compHndBBtab,
     lvaCount |-> rangeState.lvaCount, nextId |-> rangeState.nextId,
     codeRefs |-> rangeState.codeRefs, fatal |-> FALSE,
     shadowStackLclNum |-> rangeState.shadowStackLclNum,
     lvaInlinedPInvokeFrameVar |-> rangeState.lvaInlinedPInvokeFrameVar]

\* The node after a node of the range (gtNext), 0 after the last.
NextNodeAfter(range, id) ==
    IF PosOf(range, id) = Len(range) THEN 0 ELSE range[PosOf(range, id) + 1].id

\* Lines 571-574: one iteration of the loop of lowerRange. IMPL_LIMITATION
\* does not return: the compilation of the method ends there.
LowerRangeNodeTo(c) ==
    /\ m_currentRange' = c.range
    /\ m_currentBlock' = c.block
    /\ rangeState' = [rangeState EXCEPT !.lvaCount = c.lvaCount,
                                        !.nextId = c.nextId,
                                        !.codeRefs = c.codeRefs]
    /\ IF c.fatal
       THEN pcRange' = "fatal" /\ rangeNode' = rangeNode
       ELSE pcRange' = pcRange /\ rangeNode' = NextNodeAfter(c.range, rangeNode)

LowerRangeNode ==
    /\ pcRange = "lowerRange"
    /\ rangeNode # 0
    /\ LowerRangeNodeTo(lowerNode(RangeCtx, rangeNode))

\* Lines 576-580: the loop is over. The block and its range stay in the
\* variables, for what was done to them to be seen.
LowerRangeEnd ==
    /\ pcRange = "lowerRange"
    /\ rangeNode = 0
    /\ pcRange' = "done"
    /\ UNCHANGED <<m_currentRange, m_currentBlock, rangeNode, rangeState>>

RangeFrame ==
    UNCHANGED <<spillVars, ehVars, localsVars, lowerVars, structVars,
                m_lclHeapUsed, IsReversePInvoke, ehAnyFunclets>>

NextRange ==
    \/ LowerRangeNode /\ RangeFrame
    \/ LowerRangeEnd /\ RangeFrame

StartRange ==
    /\ InitRange /\ SpillOff /\ LocalsOff /\ LowerOff /\ StructOff
    /\ m_lclHeapUsed = FALSE /\ IsReversePInvoke = FALSE /\ ehAnyFunclets = FALSE

SpecRange == StartRange /\ [][NextRange]_vars

\* ------------------------------------------------------------------------
\* Properties of call lowering
\* ------------------------------------------------------------------------

\* The node the loop of lowerRange is at, as it is before it is lowered.
LoweredNode == NodeOf(m_currentRange, rangeNode)

\* lowerCall was called for the node and has returned.
LowerCallReturns ==
    /\ pcRange = "lowerRange"
    /\ rangeNode # 0
    /\ LoweredNode.oper = "GT_CALL"
    /\ pcRange' = "lowerRange"

LastNode(range) == range[Len(range)]

\* C11: when lowerCall returns for a call that is a throw helper or is marked
\* no-return, the call is the last node of the current block and the block is
\* of kind throw, whatever lowering the call has inserted after it.
C11_NoReturnCallEndsThrowBlock ==
    [][(LowerCallReturns /\ (fgIsThrow(LoweredNode) \/ IsNoReturn(LoweredNode)))
          => /\ LastNode(m_currentRange').id = rangeNode
             /\ m_currentBlock'.bbJumpKind = "BBJ_THROW"]_vars

\* A no-return unmanaged call with GC transitions has been lowered: the enter
\* helper is before it, the exit helper was created (it took the last two
\* node identities) and is gone, and the block, which held a second call and
\* a return, ends at the call and is a throw block.
C11_Witness ==
    /\ pcRange = "done"
    /\ m_currentBlock.bbJumpKind = "BBJ_THROW"
    /\ LET call == LastNode(m_currentRange)
       IN /\ call.oper = "GT_CALL"
          /\ IsUnmanaged(call) /\ IsNoReturn(call) /\ ~IsSuppressGCTransition(call)
          /\ call.lowered = 1
          /\ \E i \in 1..Len(m_currentRange) :
                IsHelperCall(m_currentRange[i], "CORINFO_HELP_JIT_PINVOKE_BEGIN")
          /\ rangeState.nextId > call.id + 7
          /\ ~InRange(m_currentRange, rangeState.nextId - 1)
          /\ ~InRange(m_currentRange, call.id + 1)

\* lowerCall is called for a rethrow helper call.
LowersRethrow ==
    /\ pcRange = "lowerRange"
    /\ rangeNode # 0
    /\ IsHelperCall(LoweredNode, "CORINFO_HELP_RETHROW")

\* The nodes of a range but for the count of the calls of lowerCall.
Uncounted(range) == [i \in 1..Len(range) |-> [range[i] EXCEPT !.lowered = 0]]

\* C12: lowering a rethrow helper call ends in the implementation limitation
\* exactly when the EH region of the handler index of the current block has no
\* catch handler, and then no node has been inserted and the call has been
\* given no argument; otherwise one node, a load of the shadow stack local
\* (the address of the exception object, at offset 0), has been inserted
\* right before the call and is the only argument of the call.
C12_RethrowFatalUnlessCatchHandler ==
    [][LowersRethrow =>
         /\ (pcRange' = "fatal")
               <=> ~HasCatchHandler(ehGetDsc(compHndBBtab, getHndIndex(m_currentBlock)))
         /\ (pcRange' = "fatal") =>
               /\ Uncounted(m_currentRange') = Uncounted(m_currentRange)
               /\ rangeState' = rangeState
               /\ m_currentBlock' = m_currentBlock
         /\ (pcRange' # "fatal") =>
               LET call == NodeOf(m_currentRange', rangeNode)
                   pos == PosOf(m_currentRange', rangeNode)
                   excObjAddr == m_currentRange'[pos - 1]
               IN /\ Len(call.gtArgs) = 1
                  /\ call.gtArgs[1].node = excObjAddr.id
                  /\ excObjAddr.oper = "GT_LCL_VAR"
                  /\ excObjAddr.lclNum = rangeState.shadowStackLclNum
                  /\ ~InRange(m_currentRange, excObjAddr.id)
                  /\ SubSeq(m_currentRange', 1, pos - 2)
                        = SubSeq(m_currentRange, 1, pos - 2)]_vars

\* A rethrow in a block of the handler of the second of two regions, a
\* finally inside a catch, has ended the compilation; the call before it in the
\* block had been lowered.
C12_Witness ==
    /\ pcRange = "fatal"
    /\ m_currentBlock.bbHndIndex = 2
    /\ compHndBBtab[1].ebdHandlerType = "EH_HANDLER_CATCH"
    /\ compHndBBtab[2].ebdHandlerType = "EH_HANDLER_FINALLY"
    /\ IsHelperCall(NodeOf(m_currentRange, rangeNode), "CORINFO_HELP_RETHROW")
    /\ NodeOf(m_currentRange, rangeNode).gtArgs = <<>>
    /\ PosOf(m_currentRange, rangeNode) > 1

\* A rethrow in a block of a catch handler has been lowered.
RethrowLowered ==
    /\ pcRange = "done"
    /\ m_currentBlock.bbHndIndex = 2
    /\ compHndBBtab[1].ebdHandlerType = "EH_HANDLER_FINALLY"
    /\ compHndBBtab[2].ebdHandlerType = "EH_HANDLER_CATCH"
    /\ IsHelperCall(LastNode(m_currentRange), "CORINFO_HELP_RETHROW")
    /\ Len(LastNode(m_currentRange).gtArgs) = 1
    /\ Len(m_currentRange) > 2

\* The well-known kinds and the places in the signature of the arguments.
ArgList(args) == [i \in DOMAIN args |-> <<args[i].wellKnown, args[i].sigIndex>>]

IsResolver(node) ==
    IsHelperCall(node, "CORINFO_HELP_LLVM_RESOLVE_INTERFACE_CALL_TARGET")

\* Every resolver call of the range has been through lowerCall once.
ResolversLoweredOnce ==
    \A i \in 1..Len(m_currentRange) :
        IsResolver(m_currentRange[i]) => m_currentRange[i].lowered = 1

\* What lowerCall leaves of a virtual stub call.
VirtualStubCallResolved ==
    LET before == LoweredNode
        call == NodeOf(m_currentRange', rangeNode)
        stubCall == NodeOf(m_currentRange', call.gtCallAddr)
        thisArg == NodeOf(m_currentRange', call.gtArgs[ArgIndex(call, "ThisPointer")].node)
        cellArg == before.gtArgs[ArgIndex(before, "VirtualStubCell")]
    IN /\ call.gtCallType = "CT_INDIRECT"
       /\ ~IsVirtualStub(call)
       /\ InRange(m_currentRange', call.gtCallAddr)
       /\ ~InRange(m_currentRange, call.gtCallAddr)
       /\ IsResolver(stubCall)
       /\ PosOf(m_currentRange', stubCall.id) < PosOf(m_currentRange', call.id)
       /\ Len(stubCall.gtArgs) = 2
       /\ LET thisForStub == NodeOf(m_currentRange', stubCall.gtArgs[1].node)
          IN /\ thisForStub.oper = "GT_LCL_VAR"
             /\ thisArg.oper = "GT_LCL_VAR"
             /\ thisForStub.lclNum = thisArg.lclNum
             /\ thisForStub.id # thisArg.id
             /\ PosOf(m_currentRange', thisForStub.id) < PosOf(m_currentRange', stubCall.id)
       /\ stubCall.gtArgs[2].node = cellArg.node
       /\ InRange(m_currentRange', cellArg.node)
       /\ PosOf(m_currentRange', cellArg.node) < PosOf(m_currentRange', stubCall.id)
       /\ ArgList(call.gtArgs)
             = ArgList(SelectSeq(before.gtArgs, LAMBDA a : a.wellKnown # "VirtualStubCell"))
       /\ \A i \in DOMAIN call.gtArgs :
             call.gtArgs[i].wellKnown # "ThisPointer" =>
                \E j \in DOMAIN before.gtArgs : before.gtArgs[j] = call.gtArgs[i]
       /\ stubCall.lowered = 1

\* C13: after the lowering of a virtual stub call, the call is indirect and
\* no longer a virtual stub call, its target is a resolver helper call on a
\* load of the receiver's local and on the cell, placed before the call; its
\* argument list is the original one without the cell argument, in the same
\* order; and the resolver call has been through lowerCall exactly once,
\* then and at any later time.
C13_VirtualStubCallThroughResolver ==
    /\ []ResolversLoweredOnce
    /\ [][(LowerCallReturns /\ IsVirtualStub(LoweredNode)) => VirtualStubCallResolved]_vars

\* The block has been lowered; in it a call on (cell, this, other) that was an
\* indirect virtual stub call on the address of a local: the receiver went to
\* a temporary, the old target is an unused value, and the call has the
\* arguments (this, other).
C13_Witness ==
    /\ pcRange = "done"
    /\ \E i \in 1..Len(m_currentRange) :
          LET call == m_currentRange[i]
          IN /\ call.oper = "GT_CALL"
             /\ call.gtCallType = "CT_INDIRECT"
             /\ call.gtCallAddr # 0
             /\ IsResolver(NodeOf(m_currentRange, call.gtCallAddr))
             /\ NodeOf(m_currentRange, call.gtCallAddr).lowered = 1
             /\ ArgList(call.gtArgs) = << <<"ThisPointer", 2>>, <<"None", 3>> >>
             /\ \E j \in 1..(i - 1) :
                   /\ m_currentRange[j].oper = "GT_STORE_LCL_VAR"
                   /\ NodeOf(m_currentRange, m_currentRange[j].ops[1]).oper = "GT_LCL_ADDR"
             /\ \E j \in 1..(i - 1) :
                   /\ m_currentRange[j].oper = "GT_CNS_INT"
                   /\ "GTF_UNUSED_VALUE" \in m_currentRange[j].gtFlags
             /\ i < Len(m_currentRange)

IsPInvokeBegin(node) == IsHelperCall(node, "CORINFO_HELP_JIT_PINVOKE_BEGIN")

IsPInvokeEnd(node) == IsHelperCall(node, "CORINFO_HELP_JIT_PINVOKE_END")

\* The helper call is on the address of the inlined PInvoke frame, which is
\* the node before it.
OnFrameAddr(range, pos) ==
    /\ pos > 1
    /\ range[pos].gtArgs = <<CallArg("None", range[pos - 1].id, 0)>>
    /\ range[pos - 1].oper = "GT_LCL_ADDR"
    /\ range[pos - 1].lclNum = rangeState.lvaInlinedPInvokeFrameVar

\* The enter helper on the frame is in the range, before the call at pos and
\* after whatever is between the two unmanaged calls of the block.
EnterHelperBefore(range, pos) ==
    \E b \in 1..(pos - 1) :
        /\ IsPInvokeBegin(range[b]) /\ OnFrameAddr(range, b)
        /\ \A k \in (b + 1)..(pos - 1) : ~IsPInvokeBegin(range[k])

ExitHelperAfter(range, pos) ==
    \E e \in (pos + 1)..Len(range) :
        /\ IsPInvokeEnd(range[e]) /\ OnFrameAddr(range, e)
        /\ \A k \in (pos + 1)..(e - 1) : ~IsPInvokeEnd(range[k])

\* The unmanaged calls that have been lowered and do GC transitions.
TransitionCalls(range) ==
    { pos \in 1..Len(range) :
        /\ range[pos].oper = "GT_CALL"
        /\ IsUnmanaged(range[pos])
        /\ ~IsSuppressGCTransition(range[pos])
        /\ range[pos].lowered > 0 }

HelpersOf(range) ==
    { pos \in 1..Len(range) : IsPInvokeBegin(range[pos]) \/ IsPInvokeEnd(range[pos]) }

\* When the block has been lowered, every unmanaged call with GC transitions
\* is between its two helpers, and every helper has been through lowerCall
\* once.
BracketedWhenDone(calls) ==
    pcRange = "done" =>
        /\ \A pos \in calls :
              /\ EnterHelperBefore(m_currentRange, pos)
              /\ ExitHelperAfter(m_currentRange, pos)
        /\ \A h \in HelpersOf(m_currentRange) : m_currentRange[h].lowered = 1

\* The enter helper is lowered by lowerUnmanagedCall, the exit helper by the
\* loop of lowerRange at a later node.
LoweredEagerlyAndByTheLoop ==
    [][(LowerCallReturns /\ IsUnmanaged(LoweredNode) /\ ~IsSuppressGCTransition(LoweredNode))
          => /\ EnterHelperBefore(m_currentRange', PosOf(m_currentRange', rangeNode))
             /\ \A b \in 1..(PosOf(m_currentRange', rangeNode) - 1) :
                   IsPInvokeBegin(m_currentRange'[b]) => m_currentRange'[b].lowered = 1
             /\ \A e \in (PosOf(m_currentRange', rangeNode) + 1)..Len(m_currentRange') :
                   IsPInvokeEnd(m_currentRange'[e]) => m_currentRange'[e].lowered = 0]_vars

\* No helper is inserted for a call that suppresses the GC transitions.
NoHelpersWhenSuppressed ==
    [][(LowerCallReturns /\ IsUnmanaged(LoweredNode) /\ IsSuppressGCTransition(LoweredNode))
          => Cardinality(HelpersOf(m_currentRange')) = Cardinality(HelpersOf(m_currentRange))]_vars

\* C18, as claimed: after lowering, the block holds the enter helper, the
\* unmanaged call and the exit helper in this order, for every unmanaged call
\* that does not suppress the GC transitions; each helper is lowered once, the
\* first by lowerUnmanagedCall and the second by the loop; none is inserted
\* for a call that suppresses the transitions.
C18_UnmanagedCallBracketed ==
    /\ []BracketedWhenDone(TransitionCalls(m_currentRange))
    /\ LoweredEagerlyAndByTheLoop
    /\ NoHelpersWhenSuppressed

\* The calls among them that return.
ReturningCalls(range) ==
    { pos \in TransitionCalls(range) : ~IsNoReturn(range[pos]) }

\* C18, amended: the same of the unmanaged calls that are not marked
\* no-return. After a no-return call the exit helper is removed with the rest
\* of the block (C11).
C18_ReturningUnmanagedCallBracketed ==
    /\ []BracketedWhenDone(ReturningCalls(m_currentRange))
    /\ LoweredEagerlyAndByTheLoop
    /\ NoHelpersWhenSuppressed

\* Two unmanaged calls of a block have been lowered, the first with GC
\* transitions and the second without: the block is enter helper, call, exit
\* helper, call, return, the helpers on the frame's address.
C18_Witness ==
    /\ pcRange = "done"
    /\ \E p \in ReturningCalls(m_currentRange) :
          /\ IsPInvokeBegin(m_currentRange[p - 1]) /\ m_currentRange[p - 1].lowered = 1
          /\ IsPInvokeEnd(m_currentRange[p + 2]) /\ m_currentRange[p + 2].lowered = 1
          /\ OnFrameAddr(m_currentRange, p - 1) /\ OnFrameAddr(m_currentRange, p + 2)
          /\ m_currentRange[p + 1].lowered = 1
          /\ \E q \in (p + 3)..Len(m_currentRange) :
                /\ IsUnmanaged(m_currentRange[q])
                /\ IsSuppressGCTransition(m_currentRange[q])
                /\ m_currentRange[q].lowered = 1
    /\ Cardinality(HelpersOf(m_currentRange)) = 2
    /\ LastNode(m_currentRange).oper = "GT_RETURN"

\* ------------------------------------------------------------------------
\* normalizeStructUse (lines 1166-1201)
\*
\* A use is an operand edge: the user and the node it uses (Def()). The
\* layouts are class layouts; getLlvmTypeForStruct gives each the LLVM struct
\* type it maps to, and two layouts may map to the same one.
\* ------------------------------------------------------------------------

ClassLayouts == {"layoutA", "layoutB", "layoutC"}

LlvmStructTypes == {"%structX", "%structY"}

StructNode(id, oper, layout, lclNum, ops) ==
    [id |-> id, oper |-> oper, layout |-> layout, lclNum |-> lclNum, ops |-> ops]

\* GenTree::GetLayout: the layout of the local for a GT_LCL_VAR, the node's
\* own (of the returned class, for a call) for the others.
GetLayout(node, lva) ==
    IF node.oper = "GT_LCL_VAR" THEN lva[node.lclNum + 1] ELSE node.layout

SetLayout(range, id, layout) ==
    [i \in 1..Len(range) |->
        IF range[i].id = id THEN [range[i] EXCEPT !.layout = layout] ELSE range[i]]

\* SetOper(GT_LCL_FLD) and SetLayout, lines 1191-1192.
SetOperLclFld(range, id, layout) ==
    [i \in 1..Len(range) |->
        IF range[i].id = id
        THEN [range[i] EXCEPT !.oper = "GT_LCL_FLD", !.layout = layout]
        ELSE range[i]]

\* LIR::Use::ReplaceWithLclVar, line 1186: the value is stored to a new local
\* of its layout, and the user uses a load of the local.
UseReplaceWithLclVar(s) ==
    LET def == NodeOf(s.range, s.use.def)
        lclNum == Len(s.lva)
        store == StructNode(s.nextId, "GT_STORE_LCL_VAR", "none", lclNum, <<def.id>>)
        load == StructNode(s.nextId + 1, "GT_LCL_VAR", "none", lclNum, <<>>)
        user == NodeOf(s.range, s.use.user)
    IN [s EXCEPT
          !.range = ReplaceNode(InsertAllAfter(@, def.id, <<store, load>>),
                                [user EXCEPT !.ops = <<load.id>>]),
          !.lva = Append(@, GetLayout(def, s.lva)),
          !.use.def = load.id,
          !.nextId = @ + 2]

\* The node returned.
Returning(s, id) == [s EXCEPT !.ret = id]

\* Lines 1175-1197.
RetypeUse(s, layout) ==
    LET oper == NodeOf(s.range, s.use.def).oper
    IN CASE oper \in {"GT_BLK", "GT_LCL_FLD"} ->
                [s EXCEPT !.range = SetLayout(@, s.use.def, layout)]
         [] oper = "GT_CALL" ->
                [UseReplaceWithLclVar(s) EXCEPT
                    !.range = SetOperLclFld(@, s.nextId + 1, layout)]
         [] oper = "GT_LCL_VAR" ->
                [s EXCEPT !.range = SetOperLclFld(@, s.use.def, layout)]

\* The use is retyped whenever its layout is not the one asked for.
normalizeStructUse_ByLayoutOnly(s, layout, llvmTypes) ==
    LET useLayout == GetLayout(NodeOf(s.range, s.use.def), s.lva)
        retyped == IF useLayout # layout THEN RetypeUse(s, layout) ELSE s
    IN Returning(retyped, retyped.use.def)

\* Lines 1166-1201.
normalizeStructUse(s, layout, llvmTypes) ==
    LET useLayout == GetLayout(NodeOf(s.range, s.use.def), s.lva)
        retyped == IF (useLayout # layout) /\ (llvmTypes[useLayout] # llvmTypes[layout])
                   THEN RetypeUse(s, layout)
                   ELSE s
    IN Returning(retyped, retyped.use.def)

\* ---- the input: a struct value of one of the four kinds and its user

StructOpers == {"GT_BLK", "GT_LCL_FLD", "GT_CALL", "GT_LCL_VAR"}

StructUsers == {"GT_STORE_LCL_VAR", "GT_CALL", "GT_RETURN"}

InitStruct ==
    /\ \E oper \in StructOpers, layout \in ClassLayouts, userOper \in StructUsers :
          /\ structRange =
                << StructNode(1, oper, IF oper = "GT_LCL_VAR" THEN "none" ELSE layout,
                              IF oper \in {"GT_LCL_VAR", "GT_LCL_FLD"} THEN 0 ELSE BAD_VAR_NUM,
                              <<>>),
                   StructNode(2, userOper, "none",
                              IF userOper = "GT_STORE_LCL_VAR" THEN 1 ELSE BAD_VAR_NUM,
                              <<1>>) >>
          /\ \E other \in ClassLayouts : structLva = <<layout, other>>
    /\ \E layout \in ClassLayouts : \E llvmTypes \in [ClassLayouts -> LlvmStructTypes] :
          structUse = [user |-> 2, def |-> 1, layout |-> layout, llvmTypes |-> llvmTypes]
    /\ structResult = <<>>
    /\ pcStruct = "start"

StructCtx ==
    [range |-> structRange, lva |-> structLva,
     use |-> [user |-> structUse.user, def |-> structUse.def],
     nextId |-> Len(structRange) + 1, ret |-> 0]

NormalizeTo(s) ==
    /\ structRange' = s.range
    /\ structLva' = s.lva
    /\ structUse' = [structUse EXCEPT !.def = s.use.def]
    /\ structResult' = Append(structResult, s.ret)

\* normalizeStructUse is applied to the use.
NormalizeStructUse ==
    /\ pcStruct = "start"
    /\ NormalizeTo(normalizeStructUse(StructCtx, structUse.layout, structUse.llvmTypes))
    /\ pcStruct' = "once"

\* It is applied again, with the same layout, to the use of the node it
\* returned.
NormalizeStructUseAgain ==
    /\ pcStruct = "once"
    /\ structUse.def = structResult[1]
    /\ NormalizeTo(normalizeStructUse(StructCtx, structUse.layout, structUse.llvmTypes))
    /\ pcStruct' = "twice"

StructFrame ==
    UNCHANGED <<spillVars, ehVars, localsVars, lowerVars, rangeVars,
                m_lclHeapUsed, IsReversePInvoke, ehAnyFunclets>>

NextStruct ==
    \/ NormalizeStructUse /\ StructFrame
    \/ NormalizeStructUseAgain /\ StructFrame

StartStruct ==
    /\ InitStruct /\ SpillOff /\ EHOff /\ LocalsOff /\ LowerOff /\ RangeOff
    /\ m_lclHeapUsed = FALSE /\ IsReversePInvoke = FALSE /\ ehAnyFunclets = FALSE

SpecStruct == StartStruct /\ [][NextStruct]_vars

\* ---- properties

UseLayout == GetLayout(NodeOf(structRange, structUse.def), structLva)

\* The layout of the use is the one asked for, or maps to the same LLVM type.
AlreadyNormalized ==
    \/ UseLayout = structUse.layout
    \/ structUse.llvmTypes[UseLayout] = structUse.llvmTypes[structUse.layout]

\* The application changes nothing and returns the node of the use.
NothingChanges ==
    /\ structRange' = structRange
    /\ structLva' = structLva
    /\ structUse' = structUse
    /\ structResult'[Len(structResult')] = structUse.def

\* C15: normalizeStructUse changes nothing and returns the node of the use
\* when the layout of the use is the layout asked for or maps to the same LLVM
\* struct type; and applied again with the same layout to what it returned,
\* it changes nothing and returns the same node, for a GT_BLK, a GT_LCL_FLD,
\* a GT_CALL and a GT_LCL_VAR.
C15_NormalizeStructUseIdempotent ==
    [][/\ (pcStruct = "start" /\ AlreadyNormalized) => NothingChanges
       /\ pcStruct = "once" =>
             /\ NothingChanges
             /\ structResult'[2] = structResult[1]]_vars

\* A call returning a struct of another LLVM type than asked for has been
\* normalized twice: the first application stored it to a temporary and made
\* its load a GT_LCL_FLD of the layout asked for, which both returned.
C15_Witness ==
    /\ pcStruct = "twice"
    /\ structRange[1].oper = "GT_CALL"
    /\ Len(structRange) = 4
    /\ structResult = <<4, 4>>
    /\ NodeOf(structRange, 4).oper = "GT_LCL_FLD"
    /\ NodeOf(structRange, 4).layout = structUse.layout
    /\ structRange[1].layout # structUse.layout
    /\ structUse.llvmTypes[structRange[1].layout] # structUse.llvmTypes[structUse.layout]
    /\ structLva[3] = structRange[1].layout

====
